---- MODULE Spec2Model ----
(***************************************************************************)
(* MenuAI backend (server.js): the POST /api/analyze-menu pipeline.        *)
(* One request is followed from its arrival to its response; every call to *)
(* the OpenAI client is an await point whose outcome (rejection, a         *)
(* response without content, or free-form text) is chosen by the           *)
(* environment.                                                            *)
(***************************************************************************)
EXTENDS Integers, Sequences, FiniteSets, TLC

(***************************************************************************)
(* Bounds of the model and program constants.                              *)
(***************************************************************************)
\* `images.length > 5` is rejected
MaxImages == 5
\* cap on the number of records one request accumulates (bounds the
\* environment's answers, not the code)
MaxRecords == 2
\* largest batch for which the requests that ask for enrichment are explored
MaxEnrichBatch == 2

\* longest `names` or `items` array a client posts to the other endpoints
MaxNames == 2

(***************************************************************************)
(* JavaScript / JSON values.  Every value is a record tagged by its type,  *)
(* so that typeof, truthiness and property lookup are computed as the      *)
(* engine computes them.                                                   *)
(***************************************************************************)
Undefined == [t |-> "undefined"]
Null == [t |-> "null"]
Bool(b) == [t |-> "bool", b |-> b]
Num(n) == [t |-> "num", n |-> n]
Str(s) == [t |-> "str", s |-> s]
Obj(f) == [t |-> "obj", f |-> f]
Arr(a) == [t |-> "arr", a |-> a]

\* o.k for a plain object's field map o
Get(o, k) == IF k \in DOMAIN o THEN o[k] ELSE Undefined

\* v.k for any value v that is not null or undefined
Prop(v, k) == IF v.t = "obj" THEN Get(v.f, k) ELSE Undefined

\* ToBoolean
Truthy(v) ==
    CASE v.t = "undefined" -> FALSE
      [] v.t = "null" -> FALSE
      [] v.t = "bool" -> v.b
      [] v.t = "num" -> v.n # 0
      [] v.t = "str" -> v.s # ""
      [] OTHER -> TRUE

IsString(v) == v.t = "str"

\* typeof v === 'object'
IsObjectType(v) == v.t \in {"obj", "arr", "null"}

IsArray(v) == v.t = "arr"

(***************************************************************************)
(* Text returned by the model: a sequence of tokens.  WS is a run of       *)
(* whitespace, FenceJson is "```json", Fence is "```", Junk is any text    *)
(* that is not JSON, Word(w) is a bare word, and a JSON value stands for   *)
(* its own serialisation.                                                  *)
(***************************************************************************)
WS == [t |-> "ws"]
FenceJson == [t |-> "fencejson"]
Fence == [t |-> "fence"]
Junk == [t |-> "junk"]
Word(w) == [t |-> "word", w |-> w]

JsonTypes == {"null", "bool", "num", "str", "obj", "arr"}

\* s with its first n elements dropped
Drop(s, n) == SubSeq(s, n + 1, Len(s))

\* number of leading whitespace tokens of s
LeadWS(s) ==
    IF \A k \in 1..Len(s) : s[k] = WS THEN Len(s)
    ELSE (CHOOSE k \in 1..Len(s) : s[k] # WS /\ \A j \in 1..(k - 1) : s[j] = WS) - 1

Reverse(s) == [k \in 1..Len(s) |-> s[Len(s) + 1 - k]]

TrimStart(s) == Drop(s, LeadWS(s))

TrimEnd(s) == Reverse(TrimStart(Reverse(s)))

\* String.prototype.trim
Trim(s) == TrimEnd(TrimStart(s))

\* .replace(/\s*```$/, '')
StripClosingFence(s) ==
    IF Len(s) > 0 /\ s[Len(s)] = Fence
    THEN TrimEnd(SubSeq(s, 1, Len(s) - 1))
    ELSE s

\* the "Remove markdown code blocks if present" step
StripFences(content) ==
    IF Len(content) > 0 /\ content[1] = FenceJson
    THEN StripClosingFence(TrimStart(Drop(content, 1)))
    ELSE IF Len(content) > 0 /\ content[1] = Fence
         THEN StripClosingFence(TrimStart(Drop(content, 1)))
         ELSE content

\* JSON.parse: [ok |-> TRUE, v |-> value] or [ok |-> FALSE] for a SyntaxError
JsonParse(content) ==
    LET core == Trim(content)
    IN  IF Len(core) = 1 /\ core[1].t \in JsonTypes
        THEN [ok |-> TRUE, v |-> core[1]]
        ELSE [ok |-> FALSE]

(***************************************************************************)
(* extractDishesFromImage, after the call has settled.                     *)
(***************************************************************************)
\* the predicate of `dishes.filter(...)`
ValidDish(dish) ==
    /\ Truthy(dish)
    /\ IsString(Prop(dish, "original_name"))
    /\ IsString(Prop(dish, "simple_description"))
    /\ Truthy(Prop(dish, "nutrition"))
    /\ IsObjectType(Prop(dish, "nutrition"))

\* the "default dish" returned when parsing fails
FallbackDish ==
    Obj([original_name |-> Str("Menu Item"),
         simple_description |-> Str("Unable to extract dish details from this image section"),
         nutrition |-> Obj([calories |-> Str("Medium"),
                            sugar |-> Str("Low"),
                            fat |-> Str("Medium"),
                            greens |-> Str("Low")])])

\* the inner try/catch returning nothing when parsing fails
ParseDishesNoFallback(content) ==
    LET parsed == JsonParse(content)
    IN  IF parsed.ok /\ IsArray(parsed.v)
        THEN SelectSeq(parsed.v.a, ValidDish)
        ELSE <<>>

\* the inner try/catch falling back to the default dish also when the filter
\* leaves nothing
ParseDishesFallbackWhenEmpty(content) ==
    LET parsed == JsonParse(content)
    IN  IF parsed.ok /\ IsArray(parsed.v) /\ SelectSeq(parsed.v.a, ValidDish) # <<>>
        THEN SelectSeq(parsed.v.a, ValidDish)
        ELSE <<FallbackDish>>

\* the inner try/catch: JSON.parse, the Array.isArray check, the filter
ParseDishes(content) ==
    LET parsed == JsonParse(content)
    IN  IF parsed.ok /\ IsArray(parsed.v)
        THEN SelectSeq(parsed.v.a, ValidDish)
        ELSE <<FallbackDish>>

\* A settled OpenAI call: the promise rejected ("error"), resolved to a
\* response whose message has no content ("nocontent"), or resolved to a
\* response carrying text.
RespError == [kind |-> "error"]
RespNoContent == [kind |-> "nocontent"]
RespText(text) == [kind |-> "text", text |-> text]

\* [threw |-> TRUE] when the function rejects, else the array it resolves to
ExtractDishesFromImage(resp) ==
    IF resp.kind = "error" \/ resp.kind = "nocontent"
    THEN [threw |-> TRUE]
    ELSE [threw |-> FALSE, dishes |-> ParseDishes(StripFences(Trim(resp.text)))]

(***************************************************************************)
(* validateMenuImages: the test applied to one settled classification.     *)
(***************************************************************************)
\* String.prototype.toLowerCase on the words the classifier may answer
LowerWord(w) ==
    CASE w \in {"YES", "Yes", "yes"} -> "yes"
      [] w \in {"NO", "No", "no"} -> "no"
      [] OTHER -> w

ToLowerCase(text) ==
    [k \in 1..Len(text) |->
        IF text[k].t = "word" THEN Word(LowerWord(text[k].w)) ELSE text[k]]

\* the test as `answer.startsWith('yes')`
AnswerStartsWithYes(resp) ==
    /\ resp.kind = "text"
    /\ Len(Trim(resp.text)) > 0
    /\ ToLowerCase(Trim(resp.text))[1] = Word("yes")

\* `answer === 'yes'`, answer being undefined when there is no content
AnswerIsYes(resp) ==
    /\ resp.kind = "text"
    /\ ToLowerCase(Trim(resp.text)) = <<Word("yes")>>

(***************************************************************************)
(* Strings: trim and String(...) on the strings the model works with.      *)
(***************************************************************************)
\* String.prototype.trim on a string value
StrTrim(s) ==
    CASE s = " pork, wheat " -> "pork, wheat"
      [] s = " Gyoza " -> "Gyoza"
      [] s = "   " -> ""
      [] OTHER -> s

\* String(v) for a truthy or falsy value v
ToStr(v) ==
    CASE v.t = "str" -> v.s
      [] v.t = "undefined" -> "undefined"
      [] v.t = "null" -> "null"
      [] v.t = "bool" -> IF v.b THEN "true" ELSE "false"
      [] v.t = "num" -> IF v.n = 0 THEN "0" ELSE "1"
      [] v.t = "arr" -> ""
      [] OTHER -> "[object Object]"

\* a || b
OrElse(a, b) == IF Truthy(a) THEN a ELSE b

\* { ...o, [k]: v } on field maps
SetField(o, k, v) == [x \in DOMAIN o \cup {k} |-> IF x = k THEN v ELSE o[x]]

\* the object literal {}
EmptyObject == [x \in {} |-> Undefined]

\* the values of a sequence, as a set
Range(s) == {s[k] : k \in 1..Len(s)}

(***************************************************************************)
(* Enrichment helpers.                                                     *)
(***************************************************************************)
\* `response.choices?.[0]?.message?.content?.trim() || '{}'`, then the fence
\* stripping and `try { map = JSON.parse(content); } catch { map = {}; }`
ParseMap(resp) ==
    LET trimmed == IF resp.kind = "text" THEN Trim(resp.text) ELSE <<>>
        content == IF trimmed = <<>> THEN <<Obj(EmptyObject)>> ELSE trimmed
        parsed == JsonParse(StripFences(content))
    IN  IF parsed.ok THEN parsed.v ELSE Obj(EmptyObject)

\* getPronunciationsForNames whose catch returns an empty object
GetPronunciationsNoFallback(names, resp) ==
    LET map == ParseMap(resp)
    IN  IF resp.kind = "error" \/ map.t = "null"
        THEN EmptyObject
        ELSE [n \in Range(names) |-> Str(ToStr(OrElse(Prop(map, n), Str(n))))]

\* getPronunciationsForNames(names) once its call has settled with resp:
\* the field map of the object it resolves to (it never rejects)
GetPronunciationsForNames(names, resp) ==
    LET map == ParseMap(resp)
    IN  IF resp.kind = "error" \/ map.t = "null"
        THEN [n \in Range(names) |-> Str(n)]
        ELSE [n \in Range(names) |-> Str(ToStr(OrElse(Prop(map, n), Str(n))))]

\* the `normalized` list of getAllergensForItems: trimmed names, empty ones dropped
NormalizedNames(items) ==
    LET trimmed == [k \in 1..Len(items) |->
                       StrTrim(ToStr(OrElse(Prop(items[k], "name"), Str(""))))]
    IN  SelectSeq(trimmed, LAMBDA n : n # "")

\* getAllergensForItems(items) once its call has settled with resp
GetAllergensForItems(items, resp) ==
    LET map == ParseMap(resp)
        names == NormalizedNames(items)
    IN  IF resp.kind = "error" \/ map.t = "null"
        THEN EmptyObject
        ELSE [n \in Range(names) |->
                 Str(StrTrim(ToStr(OrElse(Prop(map, n), Str("")))))]

\* order-preserving removal of repeated elements (Array.from(new Set(...)))
RECURSIVE Dedup(_)
Dedup(s) ==
    IF s = <<>> THEN <<>>
    ELSE LET init == Dedup(SubSeq(s, 1, Len(s) - 1))
             x == s[Len(s)]
         IN  IF x \in Range(init) THEN init ELSE Append(init, x)

\* `allDishes.map(d => d && d.original_name).filter(Boolean)`, deduplicated
UniqueNames(dishes) ==
    LET names == [k \in 1..Len(dishes) |-> Prop(dishes[k], "original_name")]
        kept == SelectSeq(names, Truthy)
    IN  Dedup([k \in 1..Len(kept) |-> kept[k].s])

\* the items handed to getAllergensForItems
AllergenItems(dishes) ==
    [k \in 1..Len(dishes) |->
        Obj([name |-> Prop(dishes[k], "original_name"),
             description |-> Prop(dishes[k], "simple_description")])]

\* the merge keeping a pronunciation the record already carries
\* (`d.pronunciation = d.pronunciation || ...`)
MergeDishKeepExisting(d, pronunciations, allergens) ==
    LET name == Prop(d, "original_name")
        a == Get(allergens, name.s)
        withPron == SetField(d.f, "pronunciation",
                             OrElse(Prop(d, "pronunciation"),
                                    OrElse(Get(pronunciations, name.s), name)))
    IN  Obj(SetField(withPron, "allergens",
                     IF IsString(a) /\ StrTrim(a.s) # ""
                     THEN Str(StrTrim(a.s))
                     ELSE Str("")))

\* the merge looking the maps up for the records of the first page only
MergeDishFirstPageOnly(d, pronunciations, allergens) ==
    LET name == Prop(d, "original_name")
        first == Prop(d, "page") = Num(1)
        a == IF first THEN Get(allergens, name.s) ELSE Undefined
        p == IF first THEN Get(pronunciations, name.s) ELSE Undefined
        withPron == SetField(d.f, "pronunciation", OrElse(p, name))
    IN  Obj(SetField(withPron, "allergens",
                     IF IsString(a) /\ StrTrim(a.s) # ""
                     THEN Str(StrTrim(a.s))
                     ELSE Str("")))

\* the body of `allDishes.forEach(d => { ... })` for one record
MergeDish(d, pronunciations, allergens) ==
    LET name == Prop(d, "original_name")
        a == Get(allergens, name.s)
        withPron == SetField(d.f, "pronunciation",
                             OrElse(Get(pronunciations, name.s), name))
    IN  Obj(SetField(withPron, "allergens",
                     IF IsString(a) /\ StrTrim(a.s) # ""
                     THEN Str(StrTrim(a.s))
                     ELSE Str("")))

\* the merge renumbering the records, `allDishes.forEach((d, idx) => ...)`
\* with `d.page = idx + 1`
MergeAllRenumbered(dishes, pronunciations, allergens) ==
    [k \in 1..Len(dishes) |->
        Obj(SetField(MergeDish(dishes[k], pronunciations, allergens).f,
                     "page", Num(k)))]

\* `allDishes.forEach(d => { ... })`
MergeAll(dishes, pronunciations, allergens) ==
    [k \in 1..Len(dishes) |-> MergeDish(dishes[k], pronunciations, allergens)]

\* the tagging with the spread last, `({ page: i + 1, ...d })`
WithPageKeepModel(dishes, i) ==
    [k \in 1..Len(dishes) |->
        IF "page" \in DOMAIN dishes[k].f
        THEN dishes[k]
        ELSE Obj(SetField(dishes[k].f, "page", Num(i + 1)))]

\* `dishes.map(d => ({ ...d, page: i + 1 }))`, i being the loop's 0-based index
WithPage(dishes, i) ==
    [k \in 1..Len(dishes) |-> Obj(SetField(dishes[k].f, "page", Num(i + 1)))]

(***************************************************************************)
(* The environment: request bodies and the answers of the OpenAI client.   *)
(***************************************************************************)
\* an uploaded image (a data URI), opaque to the server
Image(k) == [t |-> "image", id |-> k]

Batch(n) == Arr([k \in 1..n |-> Image(k)])

\* values of the body's `images` field; Undefined stands for its absence
ImagesValues ==
    {Undefined, Null, Str("data:image/png;base64"), Obj([length |-> Num(1)])}
        \cup {Batch(n) : n \in 0..(MaxImages + 1)}

\* values of the body's `skip_enrichment` field
SkipValues == {Undefined, Bool(TRUE), Str("true"), Bool(FALSE)}

\* Request bodies: every value of `images` with enrichment skipped, and every
\* value of `skip_enrichment` with a batch of at most MaxEnrichBatch images.
Bodies ==
    {[images |-> im, skip_enrichment |-> Bool(TRUE)] : im \in ImagesValues}
        \cup {[images |-> Batch(n), skip_enrichment |-> sk] :
                 n \in 1..MaxEnrichBatch, sk \in SkipValues}

Nutrition(c, s, f) ==
    Obj([calories |-> Str(c), sugar |-> Str(s), unhealthy_fat |-> Str(f)])

\* elements the model may put in its array
DishRamen ==
    Obj([original_name |-> Str("Tonkotsu Ramen"),
         simple_description |-> Str("This is a soup. Pork broth with noodles."),
         nutrition |-> Nutrition("High", "Low", "High")])

\* a well-formed dish that also carries fields the prompt did not ask for
DishGyoza ==
    Obj([original_name |-> Str("Gyoza"),
         simple_description |-> Str("This is an appetizer. Pan-fried dumplings."),
         nutrition |-> Nutrition("Medium", "Low", "Medium"),
         page |-> Num(9),
         pronunciation |-> Str("gyoh-zah")])

\* strings present but empty, nutrition an empty object
DishBlank ==
    Obj([original_name |-> Str(""),
         simple_description |-> Str(""),
         nutrition |-> Obj(EmptyObject)])

DishNoNutrition ==
    Obj([original_name |-> Str("Edamame"),
         simple_description |-> Str("This is an appetizer. Salted soybeans.")])

ModelElements == {DishRamen, DishGyoza, DishBlank, DishNoNutrition, Null}

ModelArrays == UNION {[1..k -> ModelElements] : k \in 0..MaxRecords}

\* texts that hold one JSON array, bare or inside a code fence
ArrayTexts ==
    UNION {{<<Arr(a)>>,
            <<FenceJson, WS, Arr(a), WS, Fence>>,
            <<Fence, WS, Arr(a), WS, Fence>>} : a \in ModelArrays}

\* texts JSON.parse rejects
UnparsableTexts ==
    {<<>>,
     <<Junk>>,
     <<Arr(<<DishRamen>>), WS, Junk>>,
     <<Junk, WS, FenceJson, WS, Arr(<<DishRamen>>), WS, Fence>>,
     <<Fence, Word("javascript"), WS, Arr(<<DishRamen>>), WS, Fence>>}

\* texts that parse to something other than an array
NonArrayTexts ==
    {<<DishRamen>>,
     <<Null>>,
     <<FenceJson, WS, Obj([dishes |-> Arr(<<DishRamen>>)]), WS, Fence>>}

\* The ways an extraction call can settle, each with the class it belongs
\* to: the call rejected, the response had no content, its text was a JSON
\* array, or its text was anything else.
ExtractOutcomes ==
    {[class |-> "error", resp |-> RespError],
     [class |-> "nocontent", resp |-> RespNoContent]}
        \cup {[class |-> "array", resp |-> RespText(x)] : x \in ArrayTexts}
        \cup {[class |-> "unparsable", resp |-> RespText(x)] :
                 x \in UnparsableTexts \cup NonArrayTexts}

\* what extractDishesFromImage makes of each of them
ExtractResults ==
    {[class |-> o.class, res |-> ExtractDishesFromImage(o.resp)] : o \in ExtractOutcomes}

AffirmativeTexts == {<<Word("YES")>>, <<Word("yes")>>, <<WS, Word("Yes"), WS>>}

NegativeTexts ==
    {<<Word("NO")>>,
     <<>>,
     <<Word("Yes"), Junk>>,
     <<Word("yes"), WS, Word("it"), WS, Word("is")>>}

\* The ways a classification call can settle: rejected, answered "yes" in
\* some spelling, or answered anything else (or nothing).
ClassifyOutcomes ==
    {[class |-> "error", resp |-> RespError],
     [class |-> "negative", resp |-> RespNoContent]}
        \cup {[class |-> "affirmative", resp |-> RespText(x)] : x \in AffirmativeTexts}
        \cup {[class |-> "negative", resp |-> RespText(x)] : x \in NegativeTexts}

\* objects the model may return for the pronunciation prompt
PronFull ==
    Obj(("Tonkotsu Ramen" :> Str("tohn-KOHT-soo RAH-men"))
        @@ ("Gyoza" :> Str("GYOH-zah"))
        @@ ("Menu Item" :> Str("MEN-yoo EYE-tem")))

PronPartial == Obj(("Gyoza" :> Str("GYOH-zah")) @@ ("Tonkotsu Ramen" :> Null))

\* the ways the pronunciation call can settle
PronOutcomes ==
    {[class |-> "error", resp |-> RespError],
     [class |-> "nocontent", resp |-> RespNoContent],
     [class |-> "unparsable", resp |-> RespText(<<Junk>>)],
     [class |-> "null", resp |-> RespText(<<Null>>)],
     [class |-> "full", resp |-> RespText(<<FenceJson, WS, PronFull, WS, Fence>>)],
     [class |-> "partial", resp |-> RespText(<<PronPartial>>)]}

\* objects the model may return for the allergen prompt
AllergFull ==
    Obj(("Tonkotsu Ramen" :> Str(" pork, wheat "))
        @@ ("Gyoza" :> Str("wheat, soy"))
        @@ ("Menu Item" :> Str("   ")))

AllergPartial == Obj("Gyoza" :> Str("wheat, soy"))

\* the ways the allergen call can settle
AllergOutcomes ==
    {[class |-> "error", resp |-> RespError],
     [class |-> "nocontent", resp |-> RespNoContent],
     [class |-> "unparsable", resp |-> RespText(<<Fence, Junk>>)],
     [class |-> "null", resp |-> RespText(<<Null>>)],
     [class |-> "full", resp |-> RespText(<<AllergFull>>)],
     [class |-> "partial", resp |-> RespText(<<Fence, WS, AllergPartial, WS, Fence>>)]}

(***************************************************************************)
(* State of one POST /api/analyze-menu request.                            *)
(***************************************************************************)
VARIABLES
    body,        \* req.body
    pc,          \* where the handler is: "start", "validating", "extracting",
                 \* "enriching", "done"
    vi,          \* the loop index i of validateMenuImages
    i,           \* the loop index i of the extraction loop
    areMenuImages, \* "unset" until validateMenuImages has returned
    allDishes,   \* the accumulator
    pron,        \* the getPronunciationsForNames promise, and once settled
                 \* how its OpenAI call had settled
    allerg,      \* the getAllergensForItems promise, likewise
    status,      \* HTTP status sent (0: none yet)
    reply,       \* JSON body sent
    sent,        \* number of responses sent
    calls,       \* every openai.chat.completions.create issued, in order
    last         \* how the most recently settled vision call settled: for a
                 \* classification call the response, for an extraction call
                 \* what extractDishesFromImage did

(***************************************************************************)
(* State of one call of another entry point: POST /api/pronunciations,     *)
(* POST /api/allergens, or extractDishesFromImage on its own.              *)
(***************************************************************************)
VARIABLES
    ep,          \* the entry point called, "none" when there is none
    epBody,      \* req.body
    epPc,        \* "idle", "start", "awaiting", "done"
    epOut,       \* how the OpenAI call settled
    epResult,    \* what the awaited function settled to
    epStatus,    \* HTTP status sent (0: none yet)
    epReply      \* JSON body sent

(***************************************************************************)
(* State of two POST /api/analyze-menu requests served by the same process *)
(* at the same time.                                                       *)
(***************************************************************************)
VARIABLES
    reqs,        \* per request: req.body, where its handler invocation is,
                 \* its loop indices, its two promises and what it has sent
    store,       \* the arrays bound to `allDishes`, by the slot that holds them
    heard        \* per request: the settlements of the OpenAI calls it awaited

(***************************************************************************)
(* The handler of src/server.js and the handler of src/unnamed/part_000    *)
(* each serving the same request, the OpenAI client settling the n-th call *)
(* of either in the same way.                                              *)
(***************************************************************************)
VARIABLES
    srv,         \* the invocation of src/server.js: its locals, its
                 \* accumulator, the calls it issued
    old,         \* the invocation of src/unnamed/part_000, likewise
    feed         \* how the calls settle, in the order they are issued

menuVars == <<body, pc, vi, i, areMenuImages, allDishes, pron, allerg,
              status, reply, sent, calls, last>>

epVars == <<ep, epBody, epPc, epOut, epResult, epStatus, epReply>>

concVars == <<reqs, store, heard>>

pairVars == <<srv, old, feed>>

vars == <<body, pc, vi, i, areMenuImages, allDishes, pron, allerg,
          status, reply, sent, calls, last,
          ep, epBody, epPc, epOut, epResult, epStatus, epReply,
          reqs, store, heard,
          srv, old, feed>>

\* the two requests
Requests == {1, 2}

NoImagesMsg == "No images provided. Please upload at least one menu image."
TooManyMsg == "Too many images. Maximum 5 images allowed."
NoDishesMsg == "No dishes could be extracted from the provided images. Please ensure the images contain readable menu text."
InternalMsg == "Internal server error while processing menu images."

Idle == [st |-> "idle", map |-> EmptyObject]
Pending == [st |-> "pending", map |-> EmptyObject]
Settled(map) == [st |-> "settled", map |-> map]

\* a promise settled after its OpenAI call settled the way `class` names
SettledAs(class, map) == [st |-> "settled", class |-> class, map |-> map]

NoOutcome == [class |-> "none"]

\* no other entry point is called
EpIdle ==
    /\ ep = "none"
    /\ epBody = Undefined
    /\ epPc = "idle"
    /\ epOut = NoOutcome
    /\ epResult = Undefined
    /\ epStatus = 0
    /\ epReply = EmptyObject

\* the handler invocation for a request with body b, at its entry
Invocation(b) ==
    [body |-> b, pc |-> "start", vi |-> 0, i |-> 0, areMenuImages |-> "unset",
     pron |-> Idle, allerg |-> Idle, status |-> 0, reply |-> EmptyObject,
     sent |-> 0]

NothingHeard ==
    [classify |-> <<>>, extract |-> <<>>, pron |-> [kind |-> "none"],
     allerg |-> [kind |-> "none"]]

\* no two requests are being served together
ConcIdle ==
    /\ reqs = [r \in Requests |-> [Invocation(EmptyObject) EXCEPT !.pc = "idle"]]
    /\ store = [r \in Requests |-> <<>>]
    /\ heard = [r \in Requests |-> NothingHeard]

\* a handler invocation with its accumulator and the calls it issued
Handler(b) == [inv |-> Invocation(b), acc |-> <<>>, calls |-> <<>>]

\* the two versions of the handler are not being compared
PairIdle ==
    /\ srv = [Handler(EmptyObject) EXCEPT !.inv.pc = "idle"]
    /\ old = [Handler(EmptyObject) EXCEPT !.inv.pc = "idle"]
    /\ feed = <<>>

Init ==
    /\ EpIdle
    /\ ConcIdle
    /\ PairIdle
    /\ body \in Bodies
    /\ pc = "start"
    /\ vi = 0
    /\ i = 0
    /\ areMenuImages = "unset"
    /\ allDishes = <<>>
    /\ pron = Idle
    /\ allerg = Idle
    /\ status = 0
    /\ reply = EmptyObject
    /\ sent = 0
    /\ calls = <<>>
    /\ last = [kind |-> "none", class |-> "none"]

images == Get(body, "images")

\* res.status(code).json(payload); the handler returns
Respond(code, payload) ==
    /\ status' = code
    /\ reply' = payload
    /\ sent' = sent + 1
    /\ pc' = "done"

VisionCall(kind, k) == [kind |-> kind, index |-> k, image |-> images.a[k + 1]]

\* the batch-size policy with the limit off by one
SizePolicyOffByOne(im) ==
    IF ~Truthy(im) \/ ~IsArray(im) \/ Len(im.a) = 0 THEN NoImagesMsg
    ELSE IF Len(im.a) >= MaxImages THEN TooManyMsg
    ELSE "ok"

\* the batch-size policy: "ok", or the message of the 400 it answers
SizePolicy(im) ==
    IF ~Truthy(im) \/ ~IsArray(im) \/ Len(im.a) = 0 THEN NoImagesMsg
    ELSE IF Len(im.a) > MaxImages THEN TooManyMsg
    ELSE "ok"

\* the handler from its entry to its first await
AnalyzeMenu ==
    /\ pc = "start"
    /\ IF SizePolicy(images) # "ok"
       THEN /\ Respond(400, [error |-> Str(SizePolicy(images))])
            /\ UNCHANGED <<vi, calls>>
       ELSE /\ vi' = 0
            /\ calls' = Append(calls, VisionCall("classify", 0))
            /\ pc' = "validating"
            /\ UNCHANGED <<status, reply, sent>>
    /\ UNCHANGED <<body, i, areMenuImages, allDishes, pron, allerg, last>>
    /\ UNCHANGED <<epVars, concVars, pairVars>>

NotMenuReply ==
    [error |-> Str("NOT_MENU_IMAGES"),
     message |-> Str("The uploaded images do not appear to be restaurant menus. Please upload images of restaurant menus.")]

InternalReply == [error |-> Str(InternalMsg), details |-> Str("message")]

\* validateMenuImages failing closed: a rejected call counts as a "no"
ValidateStepFailClosed(resp, k, n) ==
    IF AnswerIsYes(resp) THEN "true"
    ELSE IF k + 1 < n THEN "next"
    ELSE "false"

\* validateMenuImages without its catch: a rejected call rejects the function
ValidateStepRethrow(resp, k, n) ==
    IF resp.kind = "error" THEN "threw"
    ELSE IF AnswerIsYes(resp) THEN "true"
    ELSE IF k + 1 < n THEN "next"
    ELSE "false"

\* validateMenuImages remembering a "yes" but classifying every image: only
\* the answer for the final image decides
ValidateStepLastWins(resp, k, n) ==
    IF k + 1 < n THEN "next"
    ELSE IF resp.kind = "error" THEN "true"
    ELSE IF AnswerIsYes(resp) THEN "true"
    ELSE "false"

\* One turn of validateMenuImages' loop once the call for images[k] has
\* settled with resp, n being images.length: "true" or "false" when the
\* function returns, "next" when it goes on to images[k + 1], "threw" if it
\* were to reject.
ValidateStep(resp, k, n) ==
    IF resp.kind = "error" THEN "true"
    ELSE IF AnswerIsYes(resp) THEN "true"
    ELSE IF k + 1 < n THEN "next"
    ELSE "false"

\* the handler going on to extraction without looking at the result
AfterValidationUnchecked(ok) ==
    /\ areMenuImages' = IF ok THEN "true" ELSE "false"
    /\ allDishes' = <<>>
    /\ i' = 0
    /\ calls' = Append(calls, VisionCall("extract", 0))
    /\ pc' = "extracting"
    /\ UNCHANGED <<status, reply, sent>>

\* the handler with its test inverted, `if (areMenuImages)`
AfterValidationInverted(ok) ==
    /\ areMenuImages' = IF ok THEN "true" ELSE "false"
    /\ IF ok
       THEN /\ Respond(400, NotMenuReply)
            /\ UNCHANGED <<calls, i, allDishes>>
       ELSE /\ allDishes' = <<>>
            /\ i' = 0
            /\ calls' = Append(calls, VisionCall("extract", 0))
            /\ pc' = "extracting"
            /\ UNCHANGED <<status, reply, sent>>

\* The handler once validateMenuImages has returned ok: the NOT_MENU_IMAGES
\* answer, or the start of the extraction loop with the call for images[0].
AfterValidation(ok) ==
    /\ areMenuImages' = IF ok THEN "true" ELSE "false"
    /\ IF ~ok
       THEN /\ Respond(400, NotMenuReply)
            /\ UNCHANGED <<calls, i, allDishes>>
       ELSE /\ allDishes' = <<>>
            /\ i' = 0
            /\ calls' = Append(calls, VisionCall("extract", 0))
            /\ pc' = "extracting"
            /\ UNCHANGED <<status, reply, sent>>

\* the handler's outer catch
InternalError == Respond(500, InternalReply)

\* a classification call settles; validateMenuImages resumes and, when it
\* returns, the handler runs on to its next await or to its response
ClassifyReturn ==
    /\ pc = "validating"
    /\ \E o \in ClassifyOutcomes :
         LET r == ValidateStep(o.resp, vi, Len(images.a))
         IN  /\ last' = [kind |-> "classify", class |-> o.class, resp |-> o.resp]
             /\ CASE r = "next" ->
                       /\ vi' = vi + 1
                       /\ calls' = Append(calls, VisionCall("classify", vi + 1))
                       /\ UNCHANGED <<pc, areMenuImages, i, allDishes, status, reply, sent>>
                  [] r \in {"true", "false"} ->
                       /\ AfterValidation(r = "true")
                       /\ UNCHANGED vi
                  [] OTHER ->
                       /\ InternalError
                       /\ UNCHANGED <<vi, calls, i, allDishes, areMenuImages>>
    /\ UNCHANGED <<body, pron, allerg>>
    /\ UNCHANGED <<epVars, concVars, pairVars>>

\* the flag honoured only when it is the string 'true'
SkipEnrichmentStringOnly(b) == Get(b, "skip_enrichment") = Str("true")

\* `Boolean(req.body && (req.body.skip_enrichment === true || ... === 'true'))`
SkipEnrichment(b) ==
    Get(b, "skip_enrichment") = Bool(TRUE) \/ Get(b, "skip_enrichment") = Str("true")

\* an empty accumulator answered as a success: 200 with an empty list
NoDishesEmptyList(acc) ==
    /\ Respond(200, [dishes |-> Arr(acc)])
    /\ allDishes' = acc
    /\ UNCHANGED <<calls, pron, allerg>>

\* the 422 answer
NoDishes(acc) ==
    /\ Respond(422, [error |-> Str(NoDishesMsg)])
    /\ allDishes' = acc
    /\ UNCHANGED <<calls, pron, allerg>>

\* the base-only answer
EarlyReturn(acc) ==
    /\ Respond(200, [dishes |-> Arr(acc)])
    /\ allDishes' = acc
    /\ UNCHANGED <<calls, pron, allerg>>

\* The enrichment block up to its await: both functions are called, and so
\* both requests issued, before Promise.all is awaited; with no name to look
\* up no call is made and the merge runs at once on two empty objects.
StartEnrichment(acc) ==
    IF Len(UniqueNames(acc)) > 0
    THEN /\ pc' = "enriching"
         /\ allDishes' = acc
         /\ pron' = Pending
         /\ IF Len(NormalizedNames(AllergenItems(acc))) = 0
            THEN /\ allerg' = Settled(EmptyObject)
                 /\ calls' = Append(calls, [kind |-> "pronunciation",
                                            names |-> UniqueNames(acc)])
            ELSE /\ allerg' = Pending
                 /\ calls' = calls \o
                        <<[kind |-> "pronunciation", names |-> UniqueNames(acc)],
                          [kind |-> "allergens",
                           names |-> NormalizedNames(AllergenItems(acc))]>>
         /\ UNCHANGED <<status, reply, sent>>
    ELSE /\ allDishes' = MergeAll(acc, EmptyObject, EmptyObject)
         /\ Respond(200, [dishes |-> Arr(MergeAll(acc, EmptyObject, EmptyObject))])
         /\ UNCHANGED <<calls, pron, allerg>>

\* the handler after the loop with the early return tested before the count
AfterExtractionSkipFirst(acc) ==
    IF SkipEnrichment(body) THEN EarlyReturn(acc)
    ELSE IF Len(acc) = 0 THEN NoDishes(acc)
    ELSE StartEnrichment(acc)

\* the handler after the extraction loop, acc being the accumulator
AfterExtraction(acc) ==
    IF Len(acc) = 0 THEN NoDishes(acc)
    ELSE IF SkipEnrichment(body) THEN EarlyReturn(acc)
    ELSE StartEnrichment(acc)

\* the loop body without its try/catch: a rejection leaves the loop
LoopBodyUncaught(res, k) ==
    IF res.threw
    THEN [threw |-> TRUE, add |-> <<>>]
    ELSE [threw |-> FALSE, add |-> WithPage(res.dishes, k)]

\* The body of the extraction loop for images[k], res being what
\* extractDishesFromImage did: what is pushed onto allDishes, and whether
\* anything is thrown out of the loop (the loop's own catch swallows a
\* rejection, so nothing is).
LoopBody(res, k) ==
    IF res.threw
    THEN [threw |-> FALSE, add |-> <<>>]
    ELSE [threw |-> FALSE, add |-> WithPage(res.dishes, k)]

\* the loop bound one short: `i < images.length - 1`
MoreImagesOffByOne(k, n) == k + 2 < n

\* whether the loop goes on to another image after images[k]
MoreImages(k, n) == k + 1 < n

\* the loop submitting an image a second time when its call rejected
ExtractReturnRetryOnce ==
    /\ pc = "extracting"
    /\ \E o \in ExtractResults :
         LET step == LoopBody(o.res, i)
             acc == allDishes \o step.add
             retried == /\ Len(calls) >= 2
                        /\ calls[Len(calls) - 1] = calls[Len(calls)]
         IN  /\ Len(acc) <= MaxRecords
             /\ last' = [kind |-> "extract", class |-> o.class, res |-> o.res]
             /\ IF o.res.threw /\ ~retried
                THEN /\ calls' = Append(calls, VisionCall("extract", i))
                     /\ UNCHANGED <<i, allDishes, pc, status, reply, sent,
                                    pron, allerg>>
                ELSE IF MoreImages(i, Len(images.a))
                THEN /\ i' = i + 1
                     /\ allDishes' = acc
                     /\ calls' = Append(calls, VisionCall("extract", i + 1))
                     /\ UNCHANGED <<pc, status, reply, sent, pron, allerg>>
                ELSE /\ AfterExtraction(acc)
                     /\ UNCHANGED i
    /\ UNCHANGED <<body, vi, areMenuImages>>
    /\ UNCHANGED <<epVars, concVars, pairVars>>

\* an extraction call settles; the loop body finishes and the handler runs on
\* to its next await or to its response
ExtractReturn ==
    /\ pc = "extracting"
    /\ \E o \in ExtractResults :
         LET step == LoopBody(o.res, i)
             acc == allDishes \o step.add
         IN  /\ Len(acc) <= MaxRecords
             /\ last' = [kind |-> "extract", class |-> o.class, res |-> o.res]
             /\ IF step.threw
                THEN /\ InternalError
                     /\ UNCHANGED <<i, allDishes, calls, pron, allerg>>
                ELSE IF MoreImages(i, Len(images.a))
                THEN /\ i' = i + 1
                     /\ allDishes' = acc
                     /\ calls' = Append(calls, VisionCall("extract", i + 1))
                     /\ UNCHANGED <<pc, status, reply, sent, pron, allerg>>
                ELSE /\ AfterExtraction(acc)
                     /\ UNCHANGED i
    /\ UNCHANGED <<body, vi, areMenuImages>>
    /\ UNCHANGED <<epVars, concVars, pairVars>>

\* a rejected pronunciation call taking the other branch down with it: the
\* allergen map already obtained is dropped
PronReturnDropsAllergens ==
    /\ pc = "enriching"
    /\ pron.st = "pending"
    /\ \E o \in PronOutcomes :
         /\ pron' = SettledAs(o.class,
                              GetPronunciationsForNames(UniqueNames(allDishes), o.resp))
         /\ allerg' = IF o.class = "error" /\ allerg.st = "settled"
                       THEN SettledAs(allerg.class, EmptyObject)
                       ELSE allerg
    /\ UNCHANGED <<body, pc, vi, i, areMenuImages, allDishes,
                   status, reply, sent, calls, last>>
    /\ UNCHANGED <<epVars, concVars, pairVars>>

\* the pronunciation call settles and getPronunciationsForNames resolves
PronReturn ==
    /\ pc = "enriching"
    /\ pron.st = "pending"
    /\ \E o \in PronOutcomes :
         pron' = SettledAs(o.class,
                          GetPronunciationsForNames(UniqueNames(allDishes), o.resp))
    /\ UNCHANGED <<body, pc, vi, i, areMenuImages, allDishes, allerg,
                   status, reply, sent, calls, last>>
    /\ UNCHANGED <<epVars, concVars, pairVars>>

\* the allergen branch writing into the other branch's result: a
\* pronunciation map already obtained is emptied
AllergReturnClobbers ==
    /\ pc = "enriching"
    /\ allerg.st = "pending"
    /\ \E o \in AllergOutcomes :
         allerg' = SettledAs(o.class,
                            GetAllergensForItems(AllergenItems(allDishes), o.resp))
    /\ pron' = IF pron.st = "settled" THEN SettledAs(pron.class, EmptyObject) ELSE pron
    /\ UNCHANGED <<body, pc, vi, i, areMenuImages, allDishes,
                   status, reply, sent, calls, last>>
    /\ UNCHANGED <<epVars, concVars, pairVars>>

\* the allergen call settles and getAllergensForItems resolves
AllergReturn ==
    /\ pc = "enriching"
    /\ allerg.st = "pending"
    /\ \E o \in AllergOutcomes :
         allerg' = SettledAs(o.class,
                            GetAllergensForItems(AllergenItems(allDishes), o.resp))
    /\ UNCHANGED <<body, pc, vi, i, areMenuImages, allDishes, pron,
                   status, reply, sent, calls, last>>
    /\ UNCHANGED <<epVars, concVars, pairVars>>

\* the merge and the response as soon as either promise has settled
\* (Promise.race in place of Promise.all)
EnrichRace ==
    /\ pc = "enriching"
    /\ pron.st = "settled" \/ allerg.st = "settled"
    /\ allDishes' = MergeAll(allDishes, pron.map, allerg.map)
    /\ Respond(200, [dishes |-> Arr(MergeAll(allDishes, pron.map, allerg.map))])
    /\ UNCHANGED <<body, vi, i, areMenuImages, pron, allerg, calls, last>>
    /\ UNCHANGED <<epVars, concVars, pairVars>>

\* a join that is never released when one of the two calls rejected
EnrichJoinUnlessRejected ==
    /\ pc = "enriching"
    /\ pron.st = "settled"
    /\ allerg.st = "settled"
    /\ pron.class # "error"
    /\ allerg.class # "error"
    /\ allDishes' = MergeAll(allDishes, pron.map, allerg.map)
    /\ Respond(200, [dishes |-> Arr(MergeAll(allDishes, pron.map, allerg.map))])
    /\ UNCHANGED <<body, vi, i, areMenuImages, pron, allerg, calls, last>>
    /\ UNCHANGED <<epVars, concVars, pairVars>>

\* Promise.all has resolved: the merge and the response
EnrichJoin ==
    /\ pc = "enriching"
    /\ pron.st = "settled"
    /\ allerg.st = "settled"
    /\ allDishes' = MergeAll(allDishes, pron.map, allerg.map)
    /\ Respond(200, [dishes |-> Arr(MergeAll(allDishes, pron.map, allerg.map))])
    /\ UNCHANGED <<body, vi, i, areMenuImages, pron, allerg, calls, last>>
    /\ UNCHANGED <<epVars, concVars, pairVars>>

Next ==
    \/ AnalyzeMenu
    \/ ClassifyReturn
    \/ ExtractReturn
    \/ PronReturn
    \/ AllergReturn
    \/ EnrichJoin

Spec == Init /\ [][Next]_vars

\* The same request when the handler is started for it, every OpenAI call
\* issued eventually resolves or rejects, and the event loop runs the
\* continuation of every settled promise.
FairSpec ==
    /\ Spec
    /\ WF_vars(AnalyzeMenu)
    /\ WF_vars(ClassifyReturn)
    /\ WF_vars(ExtractReturn)
    /\ WF_vars(PronReturn)
    /\ WF_vars(AllergReturn)
    /\ WF_vars(EnrichJoin)

(***************************************************************************)
(* The other entry points: POST /api/pronunciations, POST /api/allergens,  *)
(* and extractDishesFromImage called on one image.                         *)
(***************************************************************************)
\* elements a client may put in `names`
NameValues ==
    {Str("Gyoza"), Str("Tonkotsu Ramen"), Str("Pho"), Str(""), Null, Num(1)}

\* values of the body's `names` field
NamesValues ==
    {Null, Str("Gyoza"), Obj([length |-> Num(1)])}
        \cup {Arr(a) : a \in UNION {[1..k -> NameValues] : k \in 0..MaxNames}}

\* bodies of POST /api/pronunciations; Undefined stands for no parsed body
PronunciationsBodies ==
    {Undefined, Obj(EmptyObject)} \cup {Obj([names |-> v]) : v \in NamesValues}

\* elements a client may put in `items`
ItemValues ==
    {Obj([name |-> Str("Gyoza"),
          description |-> Str("This is an appetizer. Pan-fried dumplings.")]),
     Obj([name |-> Str(" Gyoza ")]),
     Obj([name |-> Str("Tonkotsu Ramen"), description |-> Null]),
     Obj([name |-> Str("Pho"), description |-> Str("This is a soup.")]),
     Obj([name |-> Str("   "), description |-> Str("This is a soup.")]),
     Null}

\* values of the body's `items` field
ItemsValues ==
    {Null, Str("Gyoza"), Obj([length |-> Num(1)])}
        \cup {Arr(a) : a \in UNION {[1..k -> ItemValues] : k \in 0..MaxNames}}

\* bodies of POST /api/allergens
AllergensBodies ==
    {Undefined, Obj(EmptyObject)} \cup {Obj([items |-> v]) : v \in ItemsValues}

\* the body used as it arrives
BodyAsIs(b) == b

\* `req.body || {}`
BodyOrEmpty(b) == OrElse(b, Obj(EmptyObject))

\* `const { k } = v`: a TypeError when v is undefined or null
Destructure(v, k) ==
    IF v.t \in {"undefined", "null"}
    THEN [threw |-> TRUE]
    ELSE [threw |-> FALSE, v |-> Prop(v, k)]

\* `Array.isArray(names) ? names.filter(Boolean) : []`
NamesList(names) == IF IsArray(names) THEN SelectSeq(names.a, Truthy) ELSE <<>>

\* the property keys the elements of such a list stand for
NameKeys(list) == [k \in 1..Len(list) |-> ToStr(list[k])]

\* `Array.isArray(items) ? items.map(...).filter(it => it.name) : []`
ItemsList(items) ==
    IF IsArray(items)
    THEN SelectSeq(
             [k \in 1..Len(items.a) |->
                 Obj([name |-> Str(StrTrim(ToStr(
                          OrElse(Prop(items.a[k], "name"), Str(""))))),
                      description |-> Str(StrTrim(ToStr(
                          OrElse(Prop(items.a[k], "description"), Str("")))))])],
             LAMBDA it : Truthy(Prop(it, "name")))
    ELSE <<>>

\* the promise of an async function that has returned v
Resolved(v) == [rejected |-> FALSE, value |-> v]

\* `await promise.catch(() => ({}))`
CatchEmpty(p) == IF p.rejected THEN Obj(EmptyObject) ELSE p.value

\* res.status(code).json(payload) of these endpoints
EpRespond(code, payload) ==
    /\ epStatus' = code
    /\ epReply' = payload
    /\ epPc' = "done"

PronunciationsFailed ==
    [error |-> Str("Failed to get pronunciations"), details |-> Str("message")]

AllergensFailed ==
    [error |-> Str("Failed to infer allergens"), details |-> Str("message")]

\* POST /api/pronunciations from its entry to its await or its response
PostPronunciations ==
    /\ ep = "pronunciations"
    /\ epPc = "start"
    /\ LET d == Destructure(BodyOrEmpty(epBody), "names")
       IN  IF d.threw
           THEN EpRespond(500, PronunciationsFailed)
           ELSE IF Len(NamesList(d.v)) = 0
           THEN EpRespond(200, [pronunciations |-> Obj(EmptyObject)])
           ELSE /\ epPc' = "awaiting"
                /\ UNCHANGED <<epStatus, epReply>>
    /\ UNCHANGED <<ep, epBody, epOut, epResult>>
    /\ UNCHANGED <<menuVars, concVars, pairVars>>

\* the pronunciation call settles, getPronunciationsForNames settles and the
\* endpoint answers
PronunciationsReturn ==
    /\ ep = "pronunciations"
    /\ epPc = "awaiting"
    /\ \E o \in PronOutcomes :
         LET list == NamesList(Prop(BodyOrEmpty(epBody), "names"))
             p == Resolved(Obj(GetPronunciationsForNames(NameKeys(list), o.resp)))
         IN  /\ epOut' = o
             /\ epResult' = p
             /\ EpRespond(200, [pronunciations |->
                                   OrElse(CatchEmpty(p), Obj(EmptyObject))])
    /\ UNCHANGED <<ep, epBody>>
    /\ UNCHANGED <<menuVars, concVars, pairVars>>

\* POST /api/allergens from its entry to its await or its response
PostAllergens ==
    /\ ep = "allergens"
    /\ epPc = "start"
    /\ LET d == Destructure(BodyOrEmpty(epBody), "items")
       IN  IF d.threw
           THEN EpRespond(500, AllergensFailed)
           ELSE IF Len(ItemsList(d.v)) = 0
           THEN EpRespond(200, [allergens |-> Obj(EmptyObject)])
           ELSE /\ epPc' = "awaiting"
                /\ UNCHANGED <<epStatus, epReply>>
    /\ UNCHANGED <<ep, epBody, epOut, epResult>>
    /\ UNCHANGED <<menuVars, concVars, pairVars>>

\* the allergen call settles, getAllergensForItems settles and the endpoint
\* answers
AllergensReturn ==
    /\ ep = "allergens"
    /\ epPc = "awaiting"
    /\ \E o \in AllergOutcomes :
         LET list == ItemsList(Prop(BodyOrEmpty(epBody), "items"))
             p == Resolved(Obj(GetAllergensForItems(list, o.resp)))
         IN  /\ epOut' = o
             /\ epResult' = p
             /\ EpRespond(200, [allergens |->
                                   OrElse(CatchEmpty(p), Obj(EmptyObject))])
    /\ UNCHANGED <<ep, epBody>>
    /\ UNCHANGED <<menuVars, concVars, pairVars>>

\* extractDishesFromImage(image) up to its await
ExtractCall ==
    /\ ep = "extract"
    /\ epPc = "start"
    /\ epPc' = "awaiting"
    /\ UNCHANGED <<ep, epBody, epOut, epResult, epStatus, epReply>>
    /\ UNCHANGED <<menuVars, concVars, pairVars>>

\* its call settles and the function returns or rejects
ExtractSettle ==
    /\ ep = "extract"
    /\ epPc = "awaiting"
    /\ \E o \in ExtractOutcomes :
         /\ epOut' = o
         /\ epResult' = ExtractDishesFromImage(o.resp)
    /\ epPc' = "done"
    /\ UNCHANGED <<ep, epBody, epStatus, epReply>>
    /\ UNCHANGED <<menuVars, concVars, pairVars>>

\* no analyze-menu request is being served
MenuIdle ==
    /\ body = EmptyObject
    /\ pc = "idle"
    /\ vi = 0
    /\ i = 0
    /\ areMenuImages = "unset"
    /\ allDishes = <<>>
    /\ pron = Idle
    /\ allerg = Idle
    /\ status = 0
    /\ reply = EmptyObject
    /\ sent = 0
    /\ calls = <<>>
    /\ last = [kind |-> "none", class |-> "none"]

EntryInit ==
    /\ MenuIdle
    /\ ConcIdle
    /\ PairIdle
    /\ \/ ep = "pronunciations" /\ epBody \in PronunciationsBodies
       \/ ep = "allergens" /\ epBody \in AllergensBodies
       \/ ep = "extract" /\ epBody = Image(1)
    /\ epPc = "start"
    /\ epOut = NoOutcome
    /\ epResult = Undefined
    /\ epStatus = 0
    /\ epReply = EmptyObject

EntryNext ==
    \/ PostPronunciations
    \/ PronunciationsReturn
    \/ PostAllergens
    \/ AllergensReturn
    \/ ExtractCall
    \/ ExtractSettle

EntrySpec == EntryInit /\ [][EntryNext]_vars

(***************************************************************************)
(* Two POST /api/analyze-menu requests in the same process.  Node runs one *)
(* handler invocation at a time and switches between them only at an       *)
(* await, so a step is what one invocation does between two awaits.        *)
(***************************************************************************)
\* bodies of the two requests: a batch sent with enrichment skipped, and a
\* single image sent without the flag
ConcBodies ==
    {[images |-> Batch(n), skip_enrichment |-> Bool(TRUE)] : n \in {0, MaxEnrichBatch}}
        \cup {[images |-> Batch(1), skip_enrichment |-> Undefined]}

\* the settlements of a classification call: rejected, "yes", "NO"
ConcClassifyOutcomes ==
    {o \in ClassifyOutcomes :
        o.resp \in {RespError, RespText(<<Word("yes")>>), RespText(<<Word("NO")>>)}}

\* what extractDishesFromImage does: it rejects, or resolves to no record or
\* to one
ConcExtractResults ==
    {o \in ExtractResults :
        \/ o.class = "error"
        \/ /\ o.class = "array"
           /\ o.res.dishes \in {<<>>, <<DishRamen>>, <<DishGyoza>>}}

ConcPronOutcomes == {o \in PronOutcomes : o.class \in {"error", "full"}}

ConcAllergOutcomes == {o \in AllergOutcomes : o.class \in {"error", "full"}}

\* one array for both invocations, as a module-level `const allDishes = []`
\* would be
AccSlotShared(r) == 1

\* `const allDishes = []` inside the handler: every invocation binds an
\* array of its own
AccSlot(r) == r

\* res.status(code).json(payload) in invocation q, which returns
Answer(q, code, payload) ==
    [q EXCEPT !.status = code, !.reply = payload, !.sent = @ + 1, !.pc = "done"]

\* the handler from its entry to its first await
AnalyzeMenuOf(r) ==
    /\ reqs[r].pc = "start"
    /\ LET q == reqs[r]
           policy == SizePolicy(Get(q.body, "images"))
       IN  reqs' = [reqs EXCEPT ![r] =
                       IF policy # "ok"
                       THEN Answer(q, 400, [error |-> Str(policy)])
                       ELSE [q EXCEPT !.pc = "validating", !.vi = 0]]
    /\ UNCHANGED <<store, heard>>
    /\ UNCHANGED <<menuVars, epVars, pairVars>>

\* a classification call of request r settles
ClassifyReturnOf(r) ==
    /\ reqs[r].pc = "validating"
    /\ \E o \in ConcClassifyOutcomes :
         LET q == reqs[r]
             v == ValidateStep(o.resp, q.vi, Len(Get(q.body, "images").a))
         IN  /\ heard' = [heard EXCEPT ![r].classify = Append(@, o.resp)]
             /\ CASE v = "next" ->
                       /\ reqs' = [reqs EXCEPT ![r].vi = @ + 1]
                       /\ UNCHANGED store
                  [] v = "true" ->
                       /\ reqs' = [reqs EXCEPT ![r] =
                                      [q EXCEPT !.areMenuImages = "true",
                                                !.i = 0,
                                                !.pc = "extracting"]]
                       /\ store' = [store EXCEPT ![AccSlot(r)] = <<>>]
                  [] v = "false" ->
                       /\ reqs' = [reqs EXCEPT ![r] =
                                      Answer([q EXCEPT !.areMenuImages = "false"],
                                             400, NotMenuReply)]
                       /\ UNCHANGED store
                  [] OTHER ->
                       /\ reqs' = [reqs EXCEPT ![r] = Answer(q, 500, InternalReply)]
                       /\ UNCHANGED store
    /\ UNCHANGED <<menuVars, epVars, pairVars>>

\* invocation q after its extraction loop, acc being its accumulator
AfterExtractionOf(q, acc) ==
    IF Len(acc) = 0 THEN Answer(q, 422, [error |-> Str(NoDishesMsg)])
    ELSE IF SkipEnrichment(q.body) THEN Answer(q, 200, [dishes |-> Arr(acc)])
    ELSE IF Len(UniqueNames(acc)) > 0
         THEN [q EXCEPT !.pc = "enriching",
                        !.pron = Pending,
                        !.allerg = IF Len(NormalizedNames(AllergenItems(acc))) = 0
                                   THEN Settled(EmptyObject)
                                   ELSE Pending]
         ELSE Answer(q, 200, [dishes |-> Arr(MergeAll(acc, EmptyObject, EmptyObject))])

\* the accumulator once invocation q has left its extraction loop with acc:
\* with no name to look up the merge runs at once, in place
AccAfterExtraction(q, acc) ==
    IF Len(acc) > 0 /\ ~SkipEnrichment(q.body) /\ Len(UniqueNames(acc)) = 0
    THEN MergeAll(acc, EmptyObject, EmptyObject)
    ELSE acc

\* an extraction call of request r settles
ExtractReturnOf(r) ==
    /\ reqs[r].pc = "extracting"
    /\ \E o \in ConcExtractResults :
         LET q == reqs[r]
             step == LoopBody(o.res, q.i)
             acc == store[AccSlot(r)] \o step.add
         IN  /\ Len(acc) <= MaxRecords
             /\ heard' = [heard EXCEPT ![r].extract = Append(@, o.res)]
             /\ IF step.threw
                THEN /\ reqs' = [reqs EXCEPT ![r] = Answer(q, 500, InternalReply)]
                     /\ UNCHANGED store
                ELSE IF MoreImages(q.i, Len(Get(q.body, "images").a))
                THEN /\ store' = [store EXCEPT ![AccSlot(r)] = acc]
                     /\ reqs' = [reqs EXCEPT ![r].i = @ + 1]
                ELSE /\ store' = [store EXCEPT ![AccSlot(r)] = AccAfterExtraction(q, acc)]
                     /\ reqs' = [reqs EXCEPT ![r] = AfterExtractionOf(q, acc)]
    /\ UNCHANGED <<menuVars, epVars, pairVars>>

\* the pronunciation call of request r settles
PronReturnOf(r) ==
    /\ reqs[r].pc = "enriching"
    /\ reqs[r].pron.st = "pending"
    /\ \E o \in ConcPronOutcomes :
         /\ heard' = [heard EXCEPT ![r].pron = o.resp]
         /\ reqs' = [reqs EXCEPT ![r].pron =
                        Settled(GetPronunciationsForNames(
                                    UniqueNames(store[AccSlot(r)]), o.resp))]
    /\ UNCHANGED store
    /\ UNCHANGED <<menuVars, epVars, pairVars>>

\* the allergen call of request r settles
AllergReturnOf(r) ==
    /\ reqs[r].pc = "enriching"
    /\ reqs[r].allerg.st = "pending"
    /\ \E o \in ConcAllergOutcomes :
         /\ heard' = [heard EXCEPT ![r].allerg = o.resp]
         /\ reqs' = [reqs EXCEPT ![r].allerg =
                        Settled(GetAllergensForItems(
                                    AllergenItems(store[AccSlot(r)]), o.resp))]
    /\ UNCHANGED store
    /\ UNCHANGED <<menuVars, epVars, pairVars>>

\* Promise.all of request r has resolved: the merge, in place, and the
\* response
EnrichJoinOf(r) ==
    /\ reqs[r].pc = "enriching"
    /\ reqs[r].pron.st = "settled"
    /\ reqs[r].allerg.st = "settled"
    /\ LET q == reqs[r]
           merged == MergeAll(store[AccSlot(r)], q.pron.map, q.allerg.map)
       IN  /\ store' = [store EXCEPT ![AccSlot(r)] = merged]
           /\ reqs' = [reqs EXCEPT ![r] = Answer(q, 200, [dishes |-> Arr(merged)])]
    /\ UNCHANGED heard
    /\ UNCHANGED <<menuVars, epVars, pairVars>>

ConcInit ==
    /\ MenuIdle
    /\ EpIdle
    /\ PairIdle
    /\ reqs \in [Requests -> {Invocation(b) : b \in ConcBodies}]
    /\ store = [r \in Requests |-> <<>>]
    /\ heard = [r \in Requests |-> NothingHeard]

ConcNext ==
    \/ \E r \in Requests : AnalyzeMenuOf(r)
    \/ \E r \in Requests : ClassifyReturnOf(r)
    \/ \E r \in Requests : ExtractReturnOf(r)
    \/ \E r \in Requests : PronReturnOf(r)
    \/ \E r \in Requests : AllergReturnOf(r)
    \/ \E r \in Requests : EnrichJoinOf(r)

ConcSpec == ConcInit /\ [][ConcNext]_vars

(***************************************************************************)
(* The two versions of the handler side by side.  Each serves the same     *)
(* body; the n-th call either of them issues settles as feed[n], which the *)
(* first of the two to get there decides.  The body sets skip_enrichment,  *)
(* which the handler of part_000 does not read.                            *)
(***************************************************************************)
\* bodies: every kind of `images` value, with the flag in its two spellings
PairBodies ==
    {[images |-> im, skip_enrichment |-> sk] :
        im \in {Undefined, Str("data:image/png;base64"), Batch(MaxImages + 1)}
                  \cup {Batch(n) : n \in 0..MaxEnrichBatch},
        sk \in {Bool(TRUE), Str("true")}}

\* The ways a call can settle, whichever function awaits it: rejected, or a
\* response whose text is "yes", "NO", an empty array, or an array of one
\* record.
PairResponses ==
    {RespError,
     RespText(<<Word("yes")>>),
     RespText(<<Word("NO")>>),
     RespText(<<Arr(<<>>)>>),
     RespText(<<Arr(<<DishRamen>>)>>),
     RespText(<<FenceJson, WS, Arr(<<DishGyoza>>), WS, Fence>>)}

\* the n-th call settles with resp
Settles(n, resp) ==
    IF n <= Len(feed)
    THEN resp = feed[n] /\ UNCHANGED feed
    ELSE feed' = Append(feed, resp)

CallOf(kind, k, b) == [kind |-> kind, index |-> k, image |-> Get(b, "images").a[k + 1]]

\* the handler of src/server.js from its entry to its first await
ServerJsAnalyzeMenu ==
    /\ srv.inv.pc = "start"
    /\ LET q == srv.inv
           policy == SizePolicy(Get(q.body, "images"))
       IN  srv' = IF policy # "ok"
                  THEN [srv EXCEPT !.inv = Answer(q, 400, [error |-> Str(policy)])]
                  ELSE [srv EXCEPT !.inv = [q EXCEPT !.pc = "validating", !.vi = 0],
                                   !.calls = Append(@, CallOf("classify", 0, q.body))]
    /\ UNCHANGED <<old, feed>>
    /\ UNCHANGED <<menuVars, epVars, concVars>>

\* the handler of src/server.js resumed when the call it awaits has settled
\* with resp, up to its next await or its response
ServerJsResume(h, resp) ==
    LET q == h.inv
        n == Len(Get(q.body, "images").a)
        v == ValidateStep(resp, q.vi, n)
        step == LoopBody(ExtractDishesFromImage(resp), q.i)
        acc == h.acc \o step.add
    IN  IF q.pc = "validating"
        THEN CASE v = "next" ->
                    [h EXCEPT !.inv.vi = @ + 1,
                              !.calls = Append(@, CallOf("classify", q.vi + 1, q.body))]
               [] v = "true" ->
                    [inv |-> [q EXCEPT !.areMenuImages = "true", !.i = 0,
                                       !.pc = "extracting"],
                     acc |-> <<>>,
                     calls |-> Append(h.calls, CallOf("extract", 0, q.body))]
               [] v = "false" ->
                    [h EXCEPT !.inv = Answer([q EXCEPT !.areMenuImages = "false"],
                                             400, NotMenuReply)]
               [] OTHER ->
                    [h EXCEPT !.inv = Answer(q, 500, InternalReply)]
        ELSE IF step.threw
        THEN [h EXCEPT !.inv = Answer(q, 500, InternalReply)]
        ELSE IF MoreImages(q.i, n)
        THEN [inv |-> [q EXCEPT !.i = @ + 1],
              acc |-> acc,
              calls |-> Append(h.calls, CallOf("extract", q.i + 1, q.body))]
        ELSE [inv |-> AfterExtractionOf(q, acc),
              acc |-> AccAfterExtraction(q, acc),
              calls |-> h.calls]

\* a call of the handler of src/server.js settles
ServerJsReturn ==
    /\ srv.inv.pc \in {"validating", "extracting"}
    /\ \E resp \in PairResponses :
         /\ Settles(Len(srv.calls), resp)
         /\ Len(ServerJsResume(srv, resp).acc) <= MaxRecords
         /\ srv' = ServerJsResume(srv, resp)
    /\ UNCHANGED old
    /\ UNCHANGED <<menuVars, epVars, concVars>>

\* the batch-size policy of part_000
Part000SizePolicy(im) ==
    IF ~Truthy(im) \/ ~IsArray(im) \/ Len(im.a) = 0 THEN NoImagesMsg
    ELSE IF Len(im.a) > MaxImages THEN TooManyMsg
    ELSE "ok"

\* one turn of the loop of part_000's validateMenuImages
Part000ValidateStep(resp, k, n) ==
    IF resp.kind = "error" THEN "true"
    ELSE IF AnswerIsYes(resp) THEN "true"
    ELSE IF k + 1 < n THEN "next"
    ELSE "false"

\* part_000's extractDishesFromImage, whose text is that of src/server.js
Part000ExtractDishes(resp) == ExtractDishesFromImage(resp)

\* part_000's loop body without its try/catch
Part000LoopBodyUncaught(res) ==
    IF res.threw
    THEN [threw |-> TRUE, add |-> <<>>]
    ELSE [threw |-> FALSE, add |-> res.dishes]

\* part_000's loop body: `allDishes.push(...dishes)`, a rejection swallowed
Part000LoopBody(res) ==
    IF res.threw
    THEN [threw |-> FALSE, add |-> <<>>]
    ELSE [threw |-> FALSE, add |-> res.dishes]

\* the handler of part_000 from its entry to its first await
Part000AnalyzeMenu ==
    /\ old.inv.pc = "start"
    /\ LET q == old.inv
           policy == Part000SizePolicy(Get(q.body, "images"))
       IN  old' = IF policy # "ok"
                  THEN [old EXCEPT !.inv = Answer(q, 400, [error |-> Str(policy)])]
                  ELSE [old EXCEPT !.inv = [q EXCEPT !.pc = "validating", !.vi = 0],
                                   !.calls = Append(@, CallOf("classify", 0, q.body))]
    /\ UNCHANGED <<srv, feed>>
    /\ UNCHANGED <<menuVars, epVars, concVars>>

\* the handler of part_000 resumed when the call it awaits has settled with
\* resp, up to its next await or its response
Part000Resume(h, resp) ==
    LET q == h.inv
        n == Len(Get(q.body, "images").a)
        v == Part000ValidateStep(resp, q.vi, n)
        step == Part000LoopBody(Part000ExtractDishes(resp))
        acc == h.acc \o step.add
    IN  IF q.pc = "validating"
        THEN CASE v = "next" ->
                    [h EXCEPT !.inv.vi = @ + 1,
                              !.calls = Append(@, CallOf("classify", q.vi + 1, q.body))]
               [] v = "true" ->
                    [inv |-> [q EXCEPT !.areMenuImages = "true", !.i = 0,
                                       !.pc = "extracting"],
                     acc |-> <<>>,
                     calls |-> Append(h.calls, CallOf("extract", 0, q.body))]
               [] v = "false" ->
                    [h EXCEPT !.inv = Answer([q EXCEPT !.areMenuImages = "false"],
                                             400, NotMenuReply)]
               [] OTHER ->
                    [h EXCEPT !.inv = Answer(q, 500, InternalReply)]
        ELSE IF step.threw
        THEN [h EXCEPT !.inv = Answer(q, 500, InternalReply)]
        ELSE IF MoreImages(q.i, n)
        THEN [inv |-> [q EXCEPT !.i = @ + 1],
              acc |-> acc,
              calls |-> Append(h.calls, CallOf("extract", q.i + 1, q.body))]
        ELSE IF Len(acc) = 0
        THEN [inv |-> Answer(q, 422, [error |-> Str(NoDishesMsg)]),
              acc |-> acc,
              calls |-> h.calls]
        ELSE [inv |-> Answer(q, 200, [dishes |-> Arr(acc)]),
              acc |-> acc,
              calls |-> h.calls]

\* a call of the handler of part_000 settles
Part000Return ==
    /\ old.inv.pc \in {"validating", "extracting"}
    /\ \E resp \in PairResponses :
         /\ Settles(Len(old.calls), resp)
         /\ Len(Part000Resume(old, resp).acc) <= MaxRecords
         /\ old' = Part000Resume(old, resp)
    /\ UNCHANGED srv
    /\ UNCHANGED <<menuVars, epVars, concVars>>

PairInit ==
    /\ MenuIdle
    /\ EpIdle
    /\ ConcIdle
    /\ \E b \in PairBodies : srv = Handler(b) /\ old = Handler(b)
    /\ feed = <<>>

PairNext ==
    \/ ServerJsAnalyzeMenu
    \/ ServerJsReturn
    \/ Part000AnalyzeMenu
    \/ Part000Return

PairSpec == PairInit /\ [][PairNext]_vars

(***************************************************************************)
(* Properties.                                                             *)
(***************************************************************************)
\* kinds of the calls issued so far
CallKinds == {calls[k].kind : k \in 1..Len(calls)}

\* 0-based index of the image whose extraction call settled most recently
LastImage == IF pc = "extracting" THEN i - 1 ELSE i

\* the accumulated records tagged with page p
OfPage(p) == SelectSeq(allDishes, LAMBDA d : Prop(d, "page") = Num(p))

\* the extraction loop is over and validation had returned true
ExtractionOver == areMenuImages = "true" /\ pc \in {"enriching", "done"}

\* C1: a request whose images value is missing, not an array, empty or longer
\* than 5 is answered 400 with a size-policy message and no OpenAI call is
\* issued for it; a batch of 1 to 5 images is never answered with a
\* size-policy message and its first call is the classification of images[0].
C1_BatchSizePolicy ==
    pc # "start" =>
        IF images.t # "arr" \/ Len(images.a) = 0 \/ Len(images.a) > 5
        THEN /\ pc = "done"
             /\ status = 400
             /\ Get(reply, "error") \in {Str(NoImagesMsg), Str(TooManyMsg)}
             /\ calls = <<>>
        ELSE /\ Get(reply, "error") \notin {Str(NoImagesMsg), Str(TooManyMsg)}
             /\ Len(calls) >= 1
             /\ calls[1] = [kind |-> "classify", index |-> 0, image |-> images.a[1]]

\* a batch of six images has been rejected
C1_Witness ==
    /\ images.t = "arr"
    /\ Len(images.a) = 6
    /\ status = 400
    /\ calls = <<>>

\* C2: once validateMenuImages has returned false the request is over with
\* status 400 and error code NOT_MENU_IMAGES, and only classification calls
\* were ever issued for it.
C2_NotMenuTerminates ==
    areMenuImages = "false" =>
        /\ pc = "done"
        /\ status = 400
        /\ Get(reply, "error") = Str("NOT_MENU_IMAGES")
        /\ CallKinds = {"classify"}
        /\ sent = 1

\* two images were both classified as not a menu
C2_Witness ==
    /\ areMenuImages = "false"
    /\ Len(calls) = 2
    /\ status = 400

\* C3: when a classification call has just rejected, validateMenuImages has
\* returned true (whatever the earlier images were answered), nothing was
\* sent, and the handler has issued the extraction call for images[0].
C3_FailOpen ==
    (last.kind = "classify" /\ last.class = "error") =>
        /\ areMenuImages = "true"
        /\ pc = "extracting"
        /\ status = 0
        /\ sent = 0
        /\ i = 0
        /\ calls[Len(calls)] = [kind |-> "extract", index |-> 0, image |-> images.a[1]]
        /\ \A k \in 1..(Len(calls) - 1) : calls[k].kind = "classify"

\* the call for the second image rejected after the first was answered "no"
C3_Witness ==
    /\ last.kind = "classify"
    /\ last.class = "error"
    /\ vi = 1
    /\ pc = "extracting"

\* C4: when the extraction call of an image has just resolved to text that
\* is not a JSON array, that image has contributed exactly one record, named
\* "Menu Item", and the request has not failed: it is still running or has
\* answered 200.
C4_PlaceholderOnParseFailure ==
    (last.kind = "extract" /\ last.class = "unparsable") =>
        /\ Len(OfPage(LastImage + 1)) = 1
        /\ Prop(OfPage(LastImage + 1)[1], "original_name") = Str("Menu Item")
        /\ status \in {0, 200}
        /\ pc = "done" => status = 200

\* the only image of a batch returned unparsable text and the answer was 200
C4_Witness ==
    /\ last.kind = "extract"
    /\ last.class = "unparsable"
    /\ Len(images.a) = 1
    /\ status = 200
    /\ Len(allDishes) = 1

\* C5: when the extraction call of an image has just rejected, that image
\* has contributed no record, nothing was answered because of it (the loop
\* has gone on to the next image if there is one), and whenever the loop is
\* over with at least one record accumulated the request answers 200.
C5_TransportErrorSkipsImage ==
    /\ (last.kind = "extract" /\ last.class = "error") =>
           /\ Len(OfPage(LastImage + 1)) = 0
           /\ status \in {0, 200, 422}
           /\ LastImage + 1 < Len(images.a) =>
                  /\ pc = "extracting"
                  /\ status = 0
                  /\ calls[Len(calls)] = [kind |-> "extract", index |-> LastImage + 1,
                                          image |-> images.a[LastImage + 2]]
    /\ (ExtractionOver /\ Len(allDishes) > 0) =>
           /\ status \in {0, 200}
           /\ pc = "done" => status = 200

\* the call for the last image rejected, an earlier image had contributed a
\* record, and the answer was 200
C5_Witness ==
    /\ last.kind = "extract"
    /\ last.class = "error"
    /\ Len(allDishes) >= 1
    /\ status = 200

\* C6: once the extraction loop over a validated batch is over, the request
\* has answered 422 exactly when the accumulator is empty, whatever the
\* skip_enrichment flag, and in that case no enrichment call was issued.
C6_NoDishesIffEmpty ==
    ExtractionOver =>
        /\ status = 422 <=> Len(allDishes) = 0
        /\ Len(allDishes) = 0 =>
               /\ pc = "done"
               /\ CallKinds \subseteq {"classify", "extract"}
               /\ Get(reply, "error") = Str(NoDishesMsg)

\* 422 without the skip flag for a batch of two images, the last of which
\* returned an array of which no element was kept
C6_Witness ==
    /\ status = 422
    /\ Get(body, "skip_enrichment") = Undefined
    /\ Len(images.a) = 2
    /\ last.class = "array"

\* a record as the specification describes it: non-empty name and
\* description, and exactly the three leveled nutrition fields
WellFormedRecord(d) ==
    /\ IsString(Prop(d, "original_name"))
    /\ Prop(d, "original_name") # Str("")
    /\ IsString(Prop(d, "simple_description"))
    /\ Prop(d, "simple_description") # Str("")
    /\ Prop(d, "nutrition").t = "obj"
    /\ DOMAIN Prop(d, "nutrition").f = {"calories", "sugar", "unhealthy_fat"}
    /\ \A k \in DOMAIN Prop(d, "nutrition").f :
           Prop(d, "nutrition").f[k] \in {Str("High"), Str("Medium"), Str("Low")}

\* C7: in a 200 answer to a batch in which an image yielded a JSON array,
\* every record has a non-empty original_name, a non-empty
\* simple_description and a nutrition record of exactly calories, sugar and
\* unhealthy_fat, each High, Medium or Low.
C7_RecordsWellFormed ==
    (status = 200 /\ last.kind = "extract" /\ last.class = "array") =>
        \A k \in 1..Len(reply.dishes.a) : WellFormedRecord(reply.dishes.a[k])

\* C8: no outcome of any OpenAI call makes the handler answer 500: a batch of
\* 1 to 5 images is answered 200, 400 NOT_MENU_IMAGES or 422, exactly once.
C8_NeverInternalError ==
    /\ status \in {0, 200, 400, 422}
    /\ (images.t = "arr" /\ Len(images.a) \in 1..5 /\ status = 400) =>
           Get(reply, "error") = Str("NOT_MENU_IMAGES")
    /\ pc = "done" => status # 0

\* 200 for a single image whose extraction text was unparsable and whose
\* allergen branch came back with the empty object of its catch
C8_Witness ==
    /\ status = 200
    /\ vi = 0
    /\ Len(calls) = 4
    /\ allerg.st = "settled"
    /\ allerg.map = EmptyObject
    /\ Len(allDishes) = 1
    /\ Prop(allDishes[1], "original_name") = Str("Menu Item")

\* C9: with skip_enrichment = true, once the extraction loop is over with at
\* least one record the request has answered 200 with the accumulated
\* records, and no pronunciation or allergen call is ever issued.
C9_SkipEnrichmentNoCalls ==
    Get(body, "skip_enrichment") = Bool(TRUE) =>
        /\ CallKinds \subseteq {"classify", "extract"}
        /\ pc # "enriching"
        /\ (ExtractionOver /\ Len(allDishes) >= 1) =>
               /\ status = 200
               /\ reply = [dishes |-> Arr(allDishes)]
               /\ calls[Len(calls)].kind = "extract"
               /\ calls[Len(calls)].index = Len(images.a) - 1

\* a batch of five images answered 200 with the flag set
C9_Witness ==
    /\ status = 200
    /\ Get(body, "skip_enrichment") = Bool(TRUE)
    /\ Len(images.a) = 5
    /\ Len(allDishes) = 2

\* C10: with skip_enrichment = true, every record of the 200 answer has
\* pronunciation equal to its original_name and allergens equal to "".
C10_SkipDefaultsPresent ==
    (Get(body, "skip_enrichment") = Bool(TRUE) /\ status = 200) =>
        \A k \in 1..Len(reply.dishes.a) :
            /\ Prop(reply.dishes.a[k], "pronunciation") = Prop(reply.dishes.a[k], "original_name")
            /\ Prop(reply.dishes.a[k], "allergens") = Str("")

\* the names POST /api/pronunciations hands to getPronunciationsForNames
RequestedNames ==
    {ToStr(v) : v \in {x \in Range(Prop(epBody, "names").a) : Truthy(x)}}

\* what the model's answer holds for each name, when it answered with an object
SuppliedPronunciations ==
    CASE epOut.class = "full" -> PronFull.f
      [] epOut.class = "partial" -> PronPartial.f
      [] OTHER -> EmptyObject

\* C11: once its call has settled in any way (rejected, no content,
\* unparsable text, null, an object for all or for some of the names),
\* getPronunciationsForNames has resolved, never rejected; the keys of its map
\* are exactly the requested names; a name the answer gives a value maps to
\* that value and every other name maps to itself.
C11_PronunciationMapTotal ==
    (ep = "pronunciations" /\ epOut # NoOutcome) =>
        /\ ~epResult.rejected
        /\ DOMAIN epResult.value.f = RequestedNames
        /\ \A n \in RequestedNames :
              epResult.value.f[n] =
                  IF Truthy(Get(SuppliedPronunciations, n))
                  THEN Get(SuppliedPronunciations, n)
                  ELSE Str(n)

\* the call rejected for the names "Gyoza" and "Tonkotsu Ramen" and both map
\* to themselves
C11_Witness ==
    /\ ep = "pronunciations"
    /\ epOut.class = "error"
    /\ RequestedNames = {"Gyoza", "Tonkotsu Ramen"}
    /\ epResult.value.f["Gyoza"] = Str("Gyoza")
    /\ epResult.value.f["Tonkotsu Ramen"] = Str("Tonkotsu Ramen")

\* the non-empty names of the items POST /api/allergens was sent
SuppliedItemNames ==
    {n \in {StrTrim(ToStr(OrElse(Prop(it, "name"), Str("")))) :
               it \in Range(Prop(epBody, "items").a)} : n # ""}

\* what the model's answer holds for each name, when it answered with an object
SuppliedAllergens ==
    CASE epOut.class = "full" -> AllergFull.f
      [] epOut.class = "partial" -> AllergPartial.f
      [] OTHER -> EmptyObject

\* C12: once its call has settled in any way (rejected, no content,
\* unparsable text, null, an object for all or for some of the names), the map
\* getAllergensForItems resolves to, and the allergens object POST
\* /api/allergens answers with, have every supplied non-empty name as a key,
\* and a name the answer gives no value maps to the empty string.
C12_AllergenMapTotal ==
    (ep = "allergens" /\ epOut # NoOutcome) =>
        /\ ~epResult.rejected
        /\ \A n \in SuppliedItemNames :
              /\ n \in DOMAIN epResult.value.f
              /\ n \in DOMAIN Get(epReply, "allergens").f
              /\ ~Truthy(Get(SuppliedAllergens, n)) =>
                     epResult.value.f[n] = Str("")

\* the request did not ask for the early return
EnrichmentWanted ==
    Get(body, "skip_enrichment") \notin {Bool(TRUE), Str("true")}

\* C13: in a 200 answer of a request that went through enrichment, every
\* record has a pronunciation and an allergens field, and two records with the
\* same original_name have the same pronunciation and the same allergens; the
\* merge leaves every record's page as extraction tagged it.
C13_SameNameSameEnrichment ==
    /\ []((status = 200 /\ EnrichmentWanted) =>
            \A j \in 1..Len(reply.dishes.a) :
                /\ {"pronunciation", "allergens"} \subseteq DOMAIN reply.dishes.a[j].f
                /\ \A k \in 1..Len(reply.dishes.a) :
                      Prop(reply.dishes.a[j], "original_name")
                          = Prop(reply.dishes.a[k], "original_name")
                      => /\ Prop(reply.dishes.a[j], "pronunciation")
                             = Prop(reply.dishes.a[k], "pronunciation")
                         /\ Prop(reply.dishes.a[j], "allergens")
                             = Prop(reply.dishes.a[k], "allergens"))
    /\ [][pc = "enriching" =>
              /\ Len(allDishes') = Len(allDishes)
              /\ \A k \in 1..Len(allDishes) :
                    Prop(allDishes'[k], "page") = Prop(allDishes[k], "page")]_vars

\* both images held "Tonkotsu Ramen": the answer has it on page 1 and on page 2
\* with the pronunciation and the allergens the model gave for that name
C13_Witness ==
    /\ status = 200
    /\ EnrichmentWanted
    /\ Len(reply.dishes.a) = 2
    /\ \A k \in 1..2 :
          /\ Prop(reply.dishes.a[k], "original_name") = Str("Tonkotsu Ramen")
          /\ Prop(reply.dishes.a[k], "page") = Num(k)
          /\ Prop(reply.dishes.a[k], "pronunciation") = Str("tohn-KOHT-soo RAH-men")
          /\ Prop(reply.dishes.a[k], "allergens") = Str("pork, wheat")

\* the fields of a record other than the two the merge writes
Base(d) == [x \in DOMAIN d.f \ {"pronunciation", "allergens"} |-> d.f[x]]

\* what extractDishesFromImage returned for the image settled most recently
LastReturned == IF last.res.threw THEN <<>> ELSE last.res.dishes

\* C14: allDishes only grows at its end and is never reordered or shortened;
\* when the extraction of the image at 0-based position i has settled, the
\* records with page i + 1 are the end of allDishes and are, one for one and
\* in order, the records extractDishesFromImage returned for that image with
\* page set to i + 1 whatever page the model gave; pages lie in 1..n and never
\* decrease along allDishes; and the dishes of a 200 answer are allDishes.
C14_ConcatenationInImageOrder ==
    /\ []((last.kind = "extract" /\ status # 500) =>
            LET mine == OfPage(LastImage + 1)
                n == Len(allDishes)
            IN  /\ Len(mine) = Len(LastReturned)
                /\ mine = SubSeq(allDishes, n - Len(mine) + 1, n)
                /\ \A k \in 1..Len(mine) :
                      Base(mine[k]) =
                          SetField(Base(LastReturned[k]), "page", Num(LastImage + 1)))
    /\ [](areMenuImages = "true" =>
            /\ \A k \in 1..Len(allDishes) :
                  \E p \in 1..Len(images.a) : Prop(allDishes[k], "page") = Num(p)
            /\ \A j, k \in 1..Len(allDishes) :
                  j < k => Prop(allDishes[j], "page").n <= Prop(allDishes[k], "page").n)
    /\ [](status = 200 => reply.dishes = Arr(allDishes))
    /\ [][/\ Len(allDishes') >= Len(allDishes)
          /\ \A k \in 1..Len(allDishes) :
                Base(allDishes'[k]) = Base(allDishes[k])]_vars

\* a 200 answer for two images: "Tonkotsu Ramen" from the first, and from the
\* second the record the model had given page 9, which carries page 2
C14_Witness ==
    /\ status = 200
    /\ Len(images.a) = 2
    /\ LastReturned = <<DishGyoza>>
    /\ Len(reply.dishes.a) = 2
    /\ Prop(reply.dishes.a[1], "original_name") = Str("Tonkotsu Ramen")
    /\ Prop(reply.dishes.a[1], "page") = Num(1)
    /\ Prop(reply.dishes.a[2], "original_name") = Str("Gyoza")
    /\ Prop(reply.dishes.a[2], "page") = Num(2)

\* C15: POST /api/pronunciations and POST /api/allergens send no status other
\* than 200, and have sent 200 once they are done, whatever the body (absent,
\* empty, names or items missing, not an array, an array of anything) and
\* however the OpenAI call settles (rejected, no content, unparsable text,
\* null, an object).
C15_EndpointsAlways200 ==
    ep \in {"pronunciations", "allergens"} =>
        /\ epStatus \in {0, 200}
        /\ epPc = "done" => epStatus = 200

\* POST /api/allergens answered 200 although its OpenAI call rejected
C15_Witness ==
    /\ ep = "allergens"
    /\ epPc = "done"
    /\ epOut.class = "error"
    /\ epStatus = 200
    /\ epReply = [allergens |-> Obj(EmptyObject)]

\* the classification calls issued so far
ClassifyCalls == SelectSeq(calls, LAMBDA c : c.kind = "classify")

\* C16: the classification calls issued are those for images[0..vi], one per
\* image and in that order, each issued when the one before it had settled;
\* the loop goes on to a further image only after a successful answer that
\* was not affirmative; validateMenuImages has returned false exactly when
\* the call for the final image, like every call before it, settled that way,
\* and has returned true on the first affirmative answer or the first
\* rejection, after which no classification call is ever issued.
C16_ValidationShortCircuits ==
    pc # "start" /\ IsArray(images) /\ Len(ClassifyCalls) > 0 =>
        /\ Len(ClassifyCalls) = vi + 1
        /\ vi < Len(images.a)
        /\ \A k \in 1..Len(ClassifyCalls) :
              /\ calls[k] = ClassifyCalls[k]
              /\ ClassifyCalls[k].index = k - 1
              /\ ClassifyCalls[k].image = images.a[k]
        /\ (pc = "validating" /\ vi > 0) =>
              (last.kind = "classify" /\ last.class = "negative")
        /\ areMenuImages = "false" =>
              /\ vi = Len(images.a) - 1
              /\ last.kind = "classify"
              /\ last.class = "negative"
        /\ (pc # "validating" /\ last.kind = "classify") =>
              /\ last.class \in {"affirmative", "error"} => areMenuImages = "true"
              /\ (last.class = "negative" /\ vi = Len(images.a) - 1) =>
                    areMenuImages = "false"
              /\ last.class = "negative" => vi = Len(images.a) - 1

\* three images: the first answered no, the second yes; validation returned
\* true and the third image was never classified
C16_Witness ==
    /\ IsArray(images)
    /\ Len(images.a) = 3
    /\ areMenuImages = "true"
    /\ last.kind = "classify"
    /\ last.class = "affirmative"
    /\ vi = 1
    /\ Len(ClassifyCalls) = 2

\* the array a text of ArrayTexts carries
ArrayOf(text) == (CHOOSE x \in Range(text) : x.t = "arr").a

\* an element with a non-empty original_name, a non-empty simple_description
\* and a nutrition structure
NonEmptyRecord(e) ==
    /\ IsString(Prop(e, "original_name"))
    /\ Prop(e, "original_name").s # ""
    /\ IsString(Prop(e, "simple_description"))
    /\ Prop(e, "simple_description").s # ""
    /\ Prop(e, "nutrition").t = "obj"

\* C17: when the text of the response is a JSON array (bare or fenced),
\* extractDishesFromImage returns, in their order, exactly the elements that
\* have a non-empty original_name, a non-empty simple_description and a
\* nutrition structure; every other element, one with an empty string for
\* either text included, is discarded.
C17_FilterKeepsNonEmpty ==
    (ep = "extract" /\ epOut.class = "array") =>
        /\ ~epResult.threw
        /\ epResult.dishes = SelectSeq(ArrayOf(epOut.resp.text), NonEmptyRecord)

\* the extraction calls issued so far
ExtractCalls == SelectSeq(calls, LAMBDA c : c.kind = "extract")

\* C18: once validation has returned true, the extraction calls issued are
\* those for images[0..i], one per image and in that order; a further one is
\* issued only in the step in which the one before it settles, so at most one
\* is in flight; and when the loop is over there has been one for every image
\* of the batch, whatever happened to the earlier ones and whether or not the
\* image was ever classified.
C18_OneExtractionPerImage ==
    /\ [](Len(ExtractCalls) > 0 => areMenuImages = "true")
    /\ []((areMenuImages = "true" /\ status # 500) =>
            /\ pc \in {"extracting", "enriching", "done"}
            /\ Len(ExtractCalls) = i + 1
            /\ i < Len(images.a)
            /\ \A k \in 1..Len(ExtractCalls) :
                  /\ ExtractCalls[k].index = k - 1
                  /\ ExtractCalls[k].image = images.a[k]
            /\ ExtractionOver => Len(ExtractCalls) = Len(images.a))
    /\ [][/\ Len(ExtractCalls') <= Len(ExtractCalls) + 1
          /\ (Len(ExtractCalls) > 0 /\ Len(ExtractCalls') = Len(ExtractCalls) + 1) =>
                /\ pc = "extracting"
                /\ last'.kind = "extract"
                /\ i' = i + 1]_vars

\* three images of which only the first was classified: its extraction call
\* rejected and the call for the second image has been issued
C18_Witness ==
    /\ pc = "extracting"
    /\ Len(images.a) = 3
    /\ vi = 0
    /\ i = 1
    /\ last = [kind |-> "extract", class |-> "error", res |-> [threw |-> TRUE]]
    /\ Len(ExtractCalls) = 2
    /\ ExtractCalls[2] = [kind |-> "extract", index |-> 1, image |-> Image(2)]

\* the stage a call belongs to
StageOf(c) ==
    CASE c.kind = "classify" -> 1
      [] c.kind = "extract" -> 2
      [] OTHER -> 3

\* the enrichment calls issued so far
EnrichCalls == SelectSeq(calls, LAMBDA c : StageOf(c) = 3)

\* the moves of the handler from one stage to the next
StageMoves ==
    {<<"start", "validating">>, <<"start", "done">>,
     <<"validating", "extracting">>, <<"validating", "done">>,
     <<"extracting", "enriching">>, <<"extracting", "done">>,
     <<"enriching", "done">>}

\* C19: the handler only moves forward through validating, extracting,
\* enriching and done; in the call log every classification call comes before
\* every extraction call and every extraction call before every enrichment
\* call; an extraction call exists only if validation returned true; an
\* enrichment call exists only if the extraction call of the final image has
\* settled; and once an enrichment call exists no call is issued any more.
C19_StageOrder ==
    /\ [](\A j, k \in 1..Len(calls) : j < k => StageOf(calls[j]) <= StageOf(calls[k]))
    /\ []((pc = "extracting" \/ ExtractCalls # <<>>) => areMenuImages = "true")
    /\ []((pc = "enriching" \/ EnrichCalls # <<>>) =>
            /\ areMenuImages = "true"
            /\ Len(ExtractCalls) = Len(images.a)
            /\ i = Len(images.a) - 1
            /\ last.kind = "extract"
            /\ pc \in {"enriching", "done"})
    /\ [][/\ pc' # pc => <<pc, pc'>> \in StageMoves
          /\ EnrichCalls # <<>> => calls' = calls]_vars

\* a finished request for two images that went through all stages: two
\* classification calls, two extraction calls, then the two enrichment calls
C19_Witness ==
    /\ pc = "done"
    /\ status = 200
    /\ Len(calls) = 6
    /\ [k \in 1..6 |-> calls[k].kind]
           = <<"classify", "classify", "extract", "extract",
               "pronunciation", "allergens">>

\* both enrichment promises have settled
BothSettled == pron.st = "settled" /\ allerg.st = "settled"

EnrichmentDone == pc = "done" /\ pron.st = "settled" /\ allerg.st = "settled"

\* the classes of a call that did not answer with an object
FailureClasses == {"error", "nocontent", "unparsable", "null"}

\* what the pronunciation answer holds for each name, when it was an object
PronunciationAnswer ==
    CASE pron.class = "full" -> PronFull.f
      [] pron.class = "partial" -> PronPartial.f
      [] OTHER -> EmptyObject

\* what the allergen answer holds for each name, when it was an object
AllergenAnswer ==
    CASE allerg.class = "full" -> AllergFull.f
      [] allerg.class = "partial" -> AllergPartial.f
      [] OTHER -> EmptyObject

\* the allergen text of name n in the answer, without surrounding blanks
AnsweredAllergens(n) ==
    IF n \in DOMAIN AllergenAnswer
    THEN Str(StrTrim(AllergenAnswer[n].s))
    ELSE Str("")

\* the pronunciation of name n in the answer, the name itself when it has none
AnsweredPronunciation(n) ==
    IF Truthy(Get(PronunciationAnswer, n)) THEN PronunciationAnswer[n] ELSE Str(n)

\* C21: a request that waited for both enrichment calls answers 200 whatever
\* the two outcomes; a pronunciation call that rejected or gave no object
\* leaves every record with pronunciation = original_name, an allergen call
\* that rejected or gave no object leaves every record with allergens = "",
\* and in each case the records still carry the values the other call
\* answered for their names.
C21_BranchesFailIndependently ==
    EnrichmentDone =>
        /\ status = 200
        /\ \A k \in 1..Len(reply.dishes.a) :
              LET d == reply.dishes.a[k]
                  n == Prop(d, "original_name").s
              IN  /\ pron.class \in FailureClasses =>
                        Prop(d, "pronunciation") = Str(n)
                  /\ allerg.class \in FailureClasses =>
                        Prop(d, "allergens") = Str("")
                  /\ Prop(d, "pronunciation") = AnsweredPronunciation(n)
                  /\ Prop(d, "allergens") = AnsweredAllergens(n)

\* the pronunciation call rejected and the allergen call answered in full:
\* "Tonkotsu Ramen" is pronounced as written and has its allergens
C21_Witness ==
    /\ EnrichmentDone
    /\ pron.class = "error"
    /\ allerg.class = "full"
    /\ status = 200
    /\ \E k \in 1..Len(reply.dishes.a) :
          /\ Prop(reply.dishes.a[k], "original_name") = Str("Tonkotsu Ramen")
          /\ Prop(reply.dishes.a[k], "pronunciation") = Str("Tonkotsu Ramen")
          /\ Prop(reply.dishes.a[k], "allergens") = Str("pork, wheat")

\* the map the merge used for pronunciations: what getPronunciationsForNames
\* resolved to, or the empty object when it was not called
PronunciationMap == IF pron.st = "settled" THEN pron.map ELSE EmptyObject

\* the map the merge used for allergens
AllergenMap == IF allerg.st = "settled" THEN allerg.map ELSE EmptyObject

\* C22: in a 200 answer of a request without the skip flag every record has
\* a pronunciation, which is the pronunciation map's value for its
\* original_name when the map has a non-empty one and its original_name
\* otherwise, and has allergens, which is the allergen map's value for its
\* original_name when the map has one and the empty string otherwise.
C22_MergeRule ==
    (status = 200 /\ EnrichmentWanted) =>
        \A k \in 1..Len(reply.dishes.a) :
            LET d == reply.dishes.a[k]
                n == Prop(d, "original_name").s
            IN  /\ "pronunciation" \in DOMAIN d.f
                /\ "allergens" \in DOMAIN d.f
                /\ d.f["pronunciation"] =
                       IF n \in DOMAIN PronunciationMap
                          /\ PronunciationMap[n] \notin {Str(""), Null, Undefined}
                       THEN PronunciationMap[n]
                       ELSE Str(n)
                /\ d.f["allergens"] =
                       IF n \in DOMAIN AllergenMap THEN AllergenMap[n] ELSE Str("")

\* both calls answered for "Gyoza" only: "Gyoza" has the pronunciation of the
\* map, not the one the extraction model had given, and its allergens;
\* "Tonkotsu Ramen" is pronounced as written and has no allergens
C22_Witness ==
    /\ status = 200
    /\ EnrichmentWanted
    /\ EnrichmentDone
    /\ pron.class = "partial"
    /\ allerg.class = "partial"
    /\ Len(reply.dishes.a) = 2
    /\ reply.dishes.a[1].f["original_name"] = Str("Gyoza")
    /\ reply.dishes.a[1].f["pronunciation"] = Str("GYOH-zah")
    /\ reply.dishes.a[1].f["allergens"] = Str("wheat, soy")
    /\ reply.dishes.a[2].f["original_name"] = Str("Tonkotsu Ramen")
    /\ reply.dishes.a[2].f["pronunciation"] = Str("Tonkotsu Ramen")
    /\ reply.dishes.a[2].f["allergens"] = Str("")

\* the fields of a record that enrichment must leave alone
ExtractedFields == {"original_name", "simple_description", "nutrition", "page"}

\* C23: no step changes the original_name, simple_description, nutrition or
\* page of a record already in allDishes, nor removes or moves a record;
\* every record gets its page, a number, in the step that accumulates it;
\* while the handler waits for enrichment allDishes is untouched, and the
\* merge keeps its length; the dishes of a 200 answer are that sequence.
C23_EnrichmentPreservesRecords ==
    /\ [][/\ Len(allDishes') >= Len(allDishes)
          /\ \A k \in 1..Len(allDishes) : \A f \in ExtractedFields :
                Prop(allDishes'[k], f) = Prop(allDishes[k], f)
          /\ \A k \in (Len(allDishes) + 1)..Len(allDishes') :
                Prop(allDishes'[k], "page").t = "num"
          /\ pc = "enriching" => Len(allDishes') = Len(allDishes)
          /\ status' = 200 => reply'.dishes = Arr(allDishes')]_vars
    /\ [](\A k \in 1..Len(allDishes) : Prop(allDishes[k], "page").t = "num")

\* after enrichment two records of the first page are still both of page 1,
\* in the order extraction gave them, with their extracted texts and nutrition
C23_Witness ==
    /\ EnrichmentDone
    /\ status = 200
    /\ Len(reply.dishes.a) = 2
    /\ \A f \in ExtractedFields \ {"page"} :
          /\ Prop(reply.dishes.a[1], f) = Prop(DishGyoza, f)
          /\ Prop(reply.dishes.a[2], f) = Prop(DishRamen, f)
    /\ Prop(reply.dishes.a[1], "page") = Num(1)
    /\ Prop(reply.dishes.a[2], "page") = Num(1)
    /\ Prop(reply.dishes.a[2], "allergens") = Str("pork, wheat")

\* number of calls of the given kind issued so far
CallCount(kind) == Len(SelectSeq(calls, LAMBDA c : c.kind = kind))

\* number of calls of the given kind issued so far for images[k]
CallCountFor(kind, k) ==
    Len(SelectSeq(calls, LAMBDA c : c.kind = kind /\ c.index = k))

\* number of images of the request, 0 when `images` is not an array
BatchSize == IF IsArray(images) THEN Len(images.a) ELSE 0

\* C24: at every moment of a request of n images the call log holds at most
\* one classification call and at most one extraction call for each image,
\* at most one pronunciation call and at most one allergen call, and so at
\* most 2n + 2 calls, whichever of them rejected.
C24_NoRetries ==
    /\ \A k \in 0..(BatchSize - 1) :
          /\ CallCountFor("classify", k) <= 1
          /\ CallCountFor("extract", k) <= 1
    /\ CallCount("classify") <= BatchSize
    /\ CallCount("extract") <= BatchSize
    /\ CallCount("pronunciation") <= 1
    /\ CallCount("allergens") <= 1
    /\ Len(calls) <= 2 * BatchSize + 2

\* two images and 2 * 2 + 2 calls, the last extraction call and both
\* enrichment calls having rejected
C24_Witness ==
    /\ pc = "done"
    /\ BatchSize = 2
    /\ Len(calls) = 6
    /\ last = [kind |-> "extract", class |-> "error", res |-> [threw |-> TRUE]]
    /\ EnrichmentDone
    /\ pron.class = "error"
    /\ allerg.class = "error"

\* the original_name of every accumulated record, in order
RecordNames == [k \in 1..Len(allDishes) |-> Prop(allDishes[k], "original_name").s]

\* position of the first occurrence of x in t
FirstIndex(t, x) == CHOOSE k \in 1..Len(t) : t[k] = x /\ \A j \in 1..(k - 1) : t[j] # x

\* s lists every value of t once, in the order of first occurrence in t
IsDeduplication(s, t) ==
    /\ Range(s) = Range(t)
    /\ \A a, b \in 1..Len(s) : a < b =>
          /\ s[a] # s[b]
          /\ FirstIndex(t, s[a]) < FirstIndex(t, s[b])

\* C25: the names of the pronunciation call are the original_name values of
\* the accumulated records, each distinct value once, in the order of its
\* first occurrence.
C25_PronunciationNamesDeduplicated ==
    \A k \in 1..Len(calls) :
        calls[k].kind = "pronunciation" =>
            IsDeduplication(calls[k].names, RecordNames)

\* C26: when every call issued eventually settles, the request reaches the
\* end of its handler; it is at that end exactly when it has sent a
\* response, it never sends a second one, the status sent is 200, 400, 422 or
\* 500, and nothing changes once it is sent.
C26_TerminatesWithOneResponse ==
    /\ <>(pc = "done")
    /\ [](sent <= 1)
    /\ [](pc = "done" <=> sent = 1)
    /\ [](sent = 1 => status \in {200, 400, 422, 500})
    /\ [](sent = 0 => status = 0)
    /\ [][sent = 1 => UNCHANGED <<status, reply, sent, calls, allDishes>>]_vars

\* a request of two images that went through every stage, both enrichment
\* calls coming back without content, and has sent its one response
C26_Witness ==
    /\ pc = "done"
    /\ sent = 1
    /\ status = 200
    /\ BatchSize = 2
    /\ EnrichmentDone
    /\ pron.class = "nocontent"
    /\ allerg.class = "nocontent"

\* the distinct non-empty names of the accumulated records
AskedNames == {n \in Range(RecordNames) : n # ""}

\* C28: the map a settled enrichment promise holds is determined by the
\* names asked and by how its own call settled, whether the other promise is
\* still pending or has settled before it; the promise that settles second
\* leaves the first as it was; and the dishes of the answer are determined
\* record by record by the extracted record and the two outcomes.  So the
\* run where the pronunciation call settles first and the run where the
\* allergen call settles first end with the same dishes.
C28_CompletionOrderIrrelevant ==
    /\ [](pron.st = "settled" =>
            pron.map = [n \in AskedNames |-> AnsweredPronunciation(n)])
    /\ [](allerg.st = "settled" =>
            allerg.map = IF allerg.class \in {"error", "null"}
                         THEN EmptyObject
                         ELSE [n \in AskedNames |-> AnsweredAllergens(n)])
    /\ [][/\ pron.st = "settled" => pron' = pron
          /\ allerg.st = "settled" => allerg' = allerg]_vars
    /\ [][(pc = "enriching" /\ pc' = "done") =>
              /\ Len(reply'.dishes.a) = Len(allDishes)
              /\ \A k \in 1..Len(allDishes) :
                    reply'.dishes.a[k] =
                        Obj(SetField(SetField(allDishes[k].f, "pronunciation",
                                AnsweredPronunciation(RecordNames[k])),
                            "allergens", AnsweredAllergens(RecordNames[k])))]_vars

\* the pronunciation call has settled first, in full, and the handler is
\* still waiting for the allergen call (the witness of C20 is the other order)
C28_Witness ==
    /\ pc = "enriching"
    /\ pron.st = "settled"
    /\ pron.class = "full"
    /\ allerg.st = "pending"
    /\ pron.map = [n \in AskedNames |-> PronFull.f[n]]

\* an element that is no object or lacks a name, a description or a
\* nutrition structure altogether
MissingField(e) ==
    \/ e.t # "obj"
    \/ {"original_name", "simple_description", "nutrition"} \ DOMAIN e.f # {}

\* C29: when the text of the response is a JSON array, bare or fenced,
\* extractDishesFromImage returns without the placeholder record: what it
\* returns are elements of that array, and it returns nothing when the array
\* is empty or when every element lacks a required field.
C29_PlaceholderOnlyOnParseFailure ==
    (ep = "extract" /\ epOut.class = "array") =>
        /\ ~epResult.threw
        /\ FallbackDish \notin Range(epResult.dishes)
        /\ Range(epResult.dishes) \subseteq Range(ArrayOf(epOut.resp.text))
        /\ (\A e \in Range(ArrayOf(epOut.resp.text)) : MissingField(e)) =>
              epResult.dishes = <<>>

\* a fenced array of null and of an element without nutrition: nothing is
\* returned, no placeholder either
C29_Witness ==
    /\ ep = "extract"
    /\ epOut.class = "array"
    /\ epOut.resp.text[1] = FenceJson
    /\ ArrayOf(epOut.resp.text) = <<Null, DishNoNutrition>>
    /\ epResult = [threw |-> FALSE, dishes |-> <<>>]

\* the text is the word "yes" in some capitalisation, with nothing around it
\* but blanks
IsExactlyYes(text) ==
    LET core == SelectSeq(text, LAMBDA t : t # WS)
    IN  /\ Len(core) = 1
        /\ core[1] \in {Word("yes"), Word("Yes"), Word("YES")}

\* C30: after a classification call that resolved, validateMenuImages has
\* returned true if the text of the answer is exactly "yes" up to blanks and
\* capitals; after any other answer ("Yes" followed by more, a sentence
\* starting with yes, "NO", an empty text, no content) it has either gone on
\* to the next image or, at the final image, returned false, and the request
\* is then answered 400 NOT_MENU_IMAGES.
C30_OnlyExactYesIsAffirmative ==
    (last.kind = "classify" /\ last.resp.kind # "error") =>
        IF last.resp.kind = "text" /\ IsExactlyYes(last.resp.text)
        THEN areMenuImages = "true" /\ pc # "validating"
        ELSE \/ pc = "validating" /\ areMenuImages = "unset" /\ vi > 0
             \/ /\ pc = "done"
                /\ vi = Len(images.a) - 1
                /\ areMenuImages = "false"
                /\ status = 400
                /\ reply = NotMenuReply

\* two images, the answer for the second being "yes it is": the batch is
\* rejected as NOT_MENU_IMAGES
C30_Witness ==
    /\ last.kind = "classify"
    /\ last.resp = RespText(<<Word("yes"), WS, Word("it"), WS, Word("is")>>)
    /\ Len(images.a) = 2
    /\ vi = 1
    /\ status = 400
    /\ reply = NotMenuReply

\* validateMenuImages run on its own over the classification answers cs,
\* from images[k] on, n being images.length
RECURSIVE ValidateAlone(_, _, _)
ValidateAlone(cs, k, n) ==
    IF k >= Len(cs) THEN "pending"
    ELSE LET v == ValidateStep(cs[k + 1], k, n)
         IN  IF v = "next" THEN ValidateAlone(cs, k + 1, n) ELSE v

\* the accumulator of a request run on its own once extractDishesFromImage
\* has done es[1] .. es[k] for its first k images
RECURSIVE AccumulateAlone(_, _)
AccumulateAlone(es, k) ==
    IF k = 0 THEN <<>>
    ELSE AccumulateAlone(es, k - 1) \o LoopBody(es[k], k - 1).add

\* the response of a request with body b served on its own, the OpenAI calls
\* it awaits settling as h records
RunAlone(b, h) ==
    LET im == Get(b, "images")
        acc == AccumulateAlone(h.extract, Len(h.extract))
        names == UniqueNames(acc)
        pronunciations ==
            IF Len(names) = 0 THEN EmptyObject
            ELSE GetPronunciationsForNames(names, h.pron)
        allergens ==
            IF Len(names) = 0 \/ Len(NormalizedNames(AllergenItems(acc))) = 0
            THEN EmptyObject
            ELSE GetAllergensForItems(AllergenItems(acc), h.allerg)
    IN  IF SizePolicy(im) # "ok"
        THEN [status |-> 400, reply |-> [error |-> Str(SizePolicy(im))]]
        ELSE IF ValidateAlone(h.classify, 0, Len(im.a)) = "false"
        THEN [status |-> 400, reply |-> NotMenuReply]
        ELSE IF ValidateAlone(h.classify, 0, Len(im.a)) # "true"
        THEN [status |-> 500, reply |-> InternalReply]
        ELSE IF Len(h.extract) # Len(im.a)
        THEN [status |-> 500, reply |-> InternalReply]
        ELSE IF Len(acc) = 0
        THEN [status |-> 422, reply |-> [error |-> Str(NoDishesMsg)]]
        ELSE IF SkipEnrichment(b)
        THEN [status |-> 200, reply |-> [dishes |-> Arr(acc)]]
        ELSE [status |-> 200,
              reply |-> [dishes |-> Arr(MergeAll(acc, pronunciations, allergens))]]

\* the array bound to `allDishes` in the invocation serving request r
AccumulatorOf(r) == store[AccSlot(r)]

\* record d, tagged with page p, is one of the records extractDishesFromImage
\* returned for the p-th image of the request that heard h
FromOwnImage(d, h, n) ==
    LET p == Prop(d, "page")
    IN  /\ p.t = "num"
        /\ p.n \in 1..n
        /\ p.n <= Len(h.extract)
        /\ ~h.extract[p.n].threw
        /\ \E e \in Range(WithPage(h.extract[p.n].dishes, p.n - 1)) :
               Base(d) = Base(e)

\* C27: when two analyze-menu requests are served together, their steps
\* interleaved at the awaits in every order, each request's accumulator is,
\* until it answers, the one it would have on its own after the extraction
\* results it has received so far; every record in it, and every record in
\* its response, comes from one of its own images and carries that image's
\* position in its own batch; and once it has answered, its status and body
\* are those it would produce served alone with the same OpenAI settlements,
\* a 200 carrying the request's own accumulator.
C27_ConcurrentRequestsIsolated ==
    \A r \in Requests :
        LET q == reqs[r]
            h == heard[r]
            im == Get(q.body, "images")
            n == IF IsArray(im) THEN Len(im.a) ELSE 0
        IN  /\ q.status # 200 =>
                   AccumulatorOf(r) = AccumulateAlone(h.extract, Len(h.extract))
            /\ \A d \in Range(AccumulatorOf(r)) : FromOwnImage(d, h, n)
            /\ q.pc = "done" =>
                   /\ q.sent = 1
                   /\ [status |-> q.status, reply |-> q.reply] = RunAlone(q.body, h)
                   /\ q.status = 200 => q.reply.dishes.a = AccumulatorOf(r)

\* request 1 has answered with the records of its two images while request
\* 2, which received other records for its single image, is still waiting
\* for its allergen call
C27_Witness ==
    /\ reqs[1].pc = "done"
    /\ reqs[1].status = 200
    /\ Len(Get(reqs[1].body, "images").a) = 2
    /\ Len(reqs[1].reply.dishes.a) = 2
    /\ Prop(reqs[1].reply.dishes.a[1], "original_name") = Str("Tonkotsu Ramen")
    /\ Prop(reqs[1].reply.dishes.a[2], "page") = Num(2)
    /\ reqs[2].pc = "enriching"
    /\ reqs[2].pron.st = "settled"
    /\ reqs[2].allerg.st = "pending"
    /\ Len(AccumulatorOf(2)) = 1
    /\ Prop(AccumulatorOf(2)[1], "original_name") = Str("Gyoza")
    /\ Prop(AccumulatorOf(2)[1], "page") = Num(1)

\* C31: a 200 is sent only after validateMenuImages returned true and with at
\* least one record accumulated: its body carries a non-empty dishes array,
\* which is the accumulator, whether the request skipped enrichment or went
\* through it.
C31_SuccessHasDishes ==
    status = 200 =>
        /\ pc = "done"
        /\ areMenuImages = "true"
        /\ "classify" \in CallKinds
        /\ "extract" \in CallKinds
        /\ Len(allDishes) > 0
        /\ DOMAIN reply = {"dishes"}
        /\ IsArray(reply.dishes)
        /\ Len(reply.dishes.a) > 0
        /\ reply.dishes.a = allDishes

\* a 200 after enrichment for a request that did not set the flag, whose
\* final image gave no record
C31_Witness ==
    /\ status = 200
    /\ ~SkipEnrichment(body)
    /\ pron.st = "settled"
    /\ Len(images.a) = 2
    /\ last.kind = "extract"
    /\ LastReturned = <<>>
    /\ Len(reply.dishes.a) = 1

\* the fields of a record other than page
WithoutPage(d) == [x \in DOMAIN d.f \ {"page"} |-> d.f[x]]

IsPrefix(s, t) == Len(s) <= Len(t) /\ SubSeq(t, 1, Len(s)) = s

BothAnswered == srv.inv.pc = "done" /\ old.inv.pc = "done"

\* what the two handlers agree on whatever the records are: the calls issued
\* so far by one are the beginning of those issued by the other, and once
\* both have answered they have issued the same calls, each answered once,
\* with the same status, the same body when it is an error, and the same
\* number of records otherwise
SameControlFlow ==
    /\ IsPrefix(srv.calls, old.calls) \/ IsPrefix(old.calls, srv.calls)
    /\ BothAnswered =>
           /\ srv.calls = old.calls
           /\ srv.inv.sent = 1
           /\ old.inv.sent = 1
           /\ srv.inv.status = old.inv.status
           /\ srv.inv.status # 200 => srv.inv.reply = old.inv.reply
           /\ srv.inv.status = 200 =>
                  Len(srv.inv.reply.dishes.a) = Len(old.inv.reply.dishes.a)

\* C32 as stated: the handler of src/unnamed/part_000 and the handler of
\* src/server.js run with skip_enrichment set issue the same classification
\* and extraction calls, answer with the same status, and return the same
\* records in the same order, a record of server.js being the record of
\* part_000 with a page field added.
C32_HandlersAgree ==
    /\ SameControlFlow
    /\ (BothAnswered /\ srv.inv.status = 200) =>
           \A k \in 1..Len(srv.inv.reply.dishes.a) :
               /\ "page" \in DOMAIN srv.inv.reply.dishes.a[k].f
               /\ old.inv.reply.dishes.a[k].f = WithoutPage(srv.inv.reply.dishes.a[k])

\* C32, amended: the two handlers issue the same classification and
\* extraction calls, answer with the same status, and return records that
\* are, one for one and in the same order, equal in every field other than
\* page; the record of server.js always carries page, the record of
\* part_000 carries it only when the model wrote one, and then with the
\* model's value.
C32_HandlersAgreeOutsidePage ==
    /\ SameControlFlow
    /\ (BothAnswered /\ srv.inv.status = 200) =>
           \A k \in 1..Len(srv.inv.reply.dishes.a) :
               /\ "page" \in DOMAIN srv.inv.reply.dishes.a[k].f
               /\ WithoutPage(old.inv.reply.dishes.a[k])
                      = WithoutPage(srv.inv.reply.dishes.a[k])
               /\ old.inv.reply.dishes.a[k] \in {DishRamen, DishGyoza, FallbackDish}

\* both have answered 200 for two images after one classification: the
\* first record is the one the model tagged page 9, which part_000 returns
\* as it is and server.js returns with page 1; the second has no page in
\* part_000 and page 2 in server.js
C32_Witness ==
    /\ BothAnswered
    /\ srv.inv.status = 200
    /\ Len(feed) = 3
    /\ Len(srv.calls) = 3
    /\ Len(old.inv.reply.dishes.a) = 2
    /\ old.inv.reply.dishes.a[1] = DishGyoza
    /\ Prop(srv.inv.reply.dishes.a[1], "page") = Num(1)
    /\ old.inv.reply.dishes.a[2] = DishRamen
    /\ Prop(srv.inv.reply.dishes.a[2], "page") = Num(2)

====
